---- MODULE Spec2Model ----
(***************************************************************************)
(* A model of tsukuyomi.py: the configuration format (TSection,            *)
(* TConfigurationParser, TConfigurationDOMParser, WriteConfiguration), the *)
(* log format (TLogParser, TLogWriter), the random selector                *)
(* (TRandomSelector) and the Leitner scheduling passes                     *)
(* (CreateFlashcardStubMap, ApplyStatsToStubMap, TCardDeckFactory).        *)
(*                                                                         *)
(* Text is a sequence of one-character strings.  Python objects that are   *)
(* mutated through references (TSection) live in a heap: a sequence of     *)
(* records indexed by object identity.                                     *)
(***************************************************************************)
EXTENDS Integers, Sequences, FiniteSets, TLC

VARIABLES
  \* ---- configuration round trip -------------------------------------
  tree,        \* the section tree handed to WriteConfiguration
  pretty,      \* WriteConfiguration's pretty_print argument
  cfgText,     \* characters written and not yet fed to the parser
  parser,      \* the TConfigurationDOMParser object (fields as a record)
  secs,        \* heap of the TSection objects the parser allocated
  events,      \* callback invocations of the parser, in order
  cfgPc,       \* position of the round-trip driver
  consumed,    \* per character the parser consumed: was it a newline
  shadow,      \* a second DOM parser, fed the same text without its comments
  \* ---- log round trip -----------------------------------------------
  record,      \* the tuple handed to TLogWriter.Write
  logText,     \* characters written and not yet fed to the parser
  logp,        \* the TLogParser object
  delivered,   \* records handed to the record callback, in order
  logPc,       \* position of the log round-trip driver
  fed,         \* the line being fed to the log parser and the number of
               \* records delivered before it
  \* ---- random selector ----------------------------------------------
  sel,         \* a TRandomSelector: capacity and sample
  selOffered,  \* number of Add calls made on sel
  selPc,       \* "run", or "IndexError" once an Add call raised
  selStream,   \* the tags random() returned, one per Add call on sel
  selLast,     \* the last Add call: the sample before it and what it returned
  \* ---- scheduling session -------------------------------------------
  source,      \* content hashes of the cards of the flashcard file, in order
  buckets,     \* the TLeitnerBucket list
  stubs,       \* hashes_to_stubs: registered hash -> TFlashcardStub fields
  numNew,      \* num_new_cards of ApplyStatsToStubMap / the factory
  factory,     \* TCardDeckFactory counters set by __init__
  build,       \* the locals of a running ConstructDeck call
  last,        \* the last replayed record and the stub as it was before it
  schedPc,     \* position of the session
  \* ---- card deck ----------------------------------------------------
  deck,        \* a TCardDeck object with its TCardDeckStatistics
  deckLast     \* the last call on deck: its name, outcome and the deck before it

cfgVars   == <<tree, pretty, cfgText, parser, secs, events, cfgPc, consumed, shadow>>
logVars   == <<record, logText, logp, delivered, logPc, fed>>
selVars   == <<sel, selOffered, selPc, selStream, selLast>>
schedVars == <<source, buckets, stubs, numNew, factory, build, last, schedPc>>
deckVars  == <<deck, deckLast>>
vars      == <<cfgVars, logVars, selVars, schedVars, deckVars>>

----------------------------------------------------------------------------
(* Characters and text                                                     *)

Quote   == "\""
Newline == "\n"
Space   == " "

\* str.isspace() on the characters the model uses
IsSpace(c) == c \in {" ", "\n", "\t", "\r"}

\* TConfigurationParser.__COMMENT_CHARS and TLogParser.__COMMENT_CHARS
CommentChars == {"#", "@"}

Last(s)  == s[Len(s)]
Front(s) == SubSeq(s, 1, Len(s) - 1)

RECURSIVE Spaces(_)
Spaces(n) == IF n <= 0 THEN <<>> ELSE <<Space>> \o Spaces(n - 1)

\* a writer that forgets to double the quote
MutWriteEncodedString(text) == text

\* WriteEncodedString: every quote is written twice
RECURSIVE WriteEncodedString(_)
WriteEncodedString(text) ==
  IF text = <<>> THEN <<>>
  ELSE (IF Head(text) # Quote THEN <<Head(text)>> ELSE <<Quote, Quote>>)
         \o WriteEncodedString(Tail(text))

----------------------------------------------------------------------------
(* TSection as a value: a node is a setting (a string) or a section (a     *)
(* name and its children in order).                                        *)

SettingNode(text)           == [isSec |-> FALSE, text |-> text, children |-> <<>>]
SectionNode(name, children) == [isSec |-> TRUE, text |-> name, children |-> children]

\* TSection.Settings: the settings in order
Settings(section) == SelectSeq(section.children, LAMBDA c : ~c.isSec)
\* TSection.HasSections
HasSections(section) == \E i \in 1..Len(section.children) : section.children[i].isSec
\* TSection.HasChildren
HasChildren(section) == section.children # <<>>

\* Bounds of the trees that are written and parsed back
MaxNodes == 3
SettingTexts == { <<>>, <<Quote>>, <<"}", Quote, "#">> }
SectionNames == { <<>>, <<Quote, "a">> }

RECURSIVE Forests(_)
RECURSIVE SectionsOfSize(_)
\* every section with k nodes (itself included)
SectionsOfSize(k) == { SectionNode(nm, f) : nm \in SectionNames, f \in Forests(k - 1) }
\* every node with k nodes
NodesOfSize(k) ==
  (IF k = 1 THEN { SettingNode(t) : t \in SettingTexts } ELSE {}) \cup SectionsOfSize(k)
\* sibling sections carry distinct names (TSection.AddSection)
CanPrepend(c, f) == ~c.isSec \/ \A i \in 1..Len(f) : ~(f[i].isSec /\ f[i].text = c.text)
\* every list of children with n nodes in total
Forests(n) ==
  IF n = 0 THEN { <<>> }
  ELSE UNION { UNION { { <<c>> \o f : f \in { g \in Forests(n - k) : CanPrepend(c, g) } }
                       : c \in NodesOfSize(k) }
               : k \in 1..n }
Trees == UNION { SectionsOfSize(k + 1) : k \in 0..MaxNodes }

----------------------------------------------------------------------------
(* WriteConfiguration                                                      *)

TabSize == 2

SectionOpenText(pp)    == IF pp THEN <<Quote, Space, "{">> ELSE <<Quote, "{">>
SectionCloseText(pp)   == IF pp THEN <<"}", Newline>> ELSE <<"}">>
EmptySectionText(pp)   == IF pp THEN <<Quote, Space, "{", "}">> ELSE <<Quote, "{", "}">>
AttributeBeginText(pp) == IF pp THEN <<Quote, Space, "{", Space, Quote>>
                                ELSE <<Quote, "{", Quote>>
AttributeEndText(pp)   == IF pp THEN <<Quote, Space, "}", Newline>> ELSE <<Quote, "}">>
WriteTabbed(pp, numTabs, text) == IF pp THEN Spaces(TabSize * numTabs) \o text ELSE text
WriteEndOfLine(pp, text)       == IF pp THEN text \o <<Newline>> ELSE text

\* a setting is followed by a separator unless it is the section's last child
SettingEndText(isLastChild) == IF isLastChild THEN <<Quote>> ELSE <<Quote, ";">>

\* num_tabs -= 1; WriteTabbed(section_close_text)
CloseSection(pp, numTabs) == WriteTabbed(pp, numTabs - 1, SectionCloseText(pp))

\* WriteChildren(section, start_index): writes settings until it meets a
\* subsection, which it pushes (after a resumption entry for the section
\* itself) and returns False.  childIndex is Python's 0-based index.
RECURSIVE WriteChildren(_, _, _, _, _, _)
WriteChildren(pp, numTabs, section, childIndex, out, stack) ==
  IF childIndex >= Len(section.children)
  THEN [done |-> TRUE, out |-> out, stack |-> stack]
  ELSE LET child == section.children[childIndex + 1] IN
       IF ~child.isSec
       THEN WriteChildren(pp, numTabs, section, childIndex + 1,
              out \o WriteTabbed(pp, numTabs, <<Quote>>) \o WriteEncodedString(child.text)
                  \o WriteEndOfLine(pp,
                       SettingEndText(childIndex = Len(section.children) - 1)),
              stack)
       ELSE [done |-> FALSE, out |-> out,
             stack |-> stack \o << <<TRUE, numTabs, childIndex + 1, section>>,
                                   <<FALSE, numTabs, 0, child>> >>]

\* the while loop over section_stack; entries are
\* (visited, num_tabs, last_child_index, section)
RECURSIVE WriteLoop(_, _, _)
WriteLoop(pp, stack, out) ==
  IF stack = <<>> THEN out
  ELSE
    LET visited  == Last(stack)[1]
        numTabs  == Last(stack)[2]
        lastIdx  == Last(stack)[3]
        section  == Last(stack)[4]
        rest     == Front(stack)
    IN
    IF visited THEN
      IF lastIdx = Len(section.children)
      THEN WriteLoop(pp, rest, out \o CloseSection(pp, numTabs))
      ELSE LET r == WriteChildren(pp, numTabs, section, lastIdx, out, rest) IN
           IF r.done THEN WriteLoop(pp, r.stack, r.out \o CloseSection(pp, numTabs))
                     ELSE WriteLoop(pp, r.stack, r.out)
    ELSE
      LET named == out \o WriteTabbed(pp, numTabs, <<Quote>>)
                       \o WriteEncodedString(section.text)
      IN
      IF HasChildren(section) THEN
        IF Len(Settings(section)) = 1 /\ ~HasSections(section)
        THEN WriteLoop(pp, rest,
                       named \o AttributeBeginText(pp)
                             \o WriteEncodedString(Settings(section)[1].text)
                             \o AttributeEndText(pp))
        ELSE LET opened == named \o WriteEndOfLine(pp, SectionOpenText(pp))
                 r == WriteChildren(pp, numTabs + 1, section, lastIdx, opened, rest)
             IN
             IF r.done THEN WriteLoop(pp, r.stack, r.out \o CloseSection(pp, numTabs + 1))
                       ELSE WriteLoop(pp, r.stack, r.out)
      ELSE WriteLoop(pp, rest, named \o WriteEndOfLine(pp, EmptySectionText(pp)))

WriteConfiguration(section, pp) == WriteLoop(pp, << <<FALSE, 0, 0, section>> >>, <<>>)

----------------------------------------------------------------------------
(* TSection objects on the heap, as the parser allocates and mutates them  *)

\* TSection.__init__
NewSection(name) == [name |-> name, children |-> <<>>, sections |-> <<>>, settings |-> <<>>]

\* TSection.HasSection
HasSection(heap, id, name) ==
  \E i \in 1..Len(heap[id].sections) : heap[heap[id].sections[i]].name = name

\* the test of TSection.AddSection: setdefault(name, section) is not section,
\* true when the name is taken by another object than the one passed in
AddSectionRaises(heap, parent, id) ==
  \E i \in 1..Len(heap[parent].sections) :
     /\ heap[heap[parent].sections[i]].name = heap[id].name
     /\ heap[parent].sections[i] # id

\* TSection.AddSection: KeyError (ok = FALSE); setdefault adds the name to
\* __sections only when it is not there yet
AddSection(heap, parent, id) ==
  IF AddSectionRaises(heap, parent, id)
  THEN [ok |-> FALSE, heap |-> heap]
  ELSE [ok |-> TRUE,
        heap |-> [heap EXCEPT ![parent].sections =
                                 IF HasSection(heap, parent, heap[id].name)
                                 THEN @ ELSE Append(@, id),
                              ![parent].children =
                                 Append(@, [isSec |-> TRUE, text |-> heap[id].name, ref |-> id])]]

\* an AddSetting that puts the setting in front of the other children
MutAddSetting(heap, id, setting) ==
  [heap EXCEPT ![id].settings = Append(@, setting),
               ![id].children = <<[isSec |-> FALSE, text |-> setting, ref |-> 0]>> \o @]

\* TSection.AddSetting
AddSetting(heap, id, setting) ==
  [heap EXCEPT ![id].settings = Append(@, setting),
               ![id].children = Append(@, [isSec |-> FALSE, text |-> setting, ref |-> 0])]

Reverse(list) == [i \in 1..Len(list) |-> list[Len(list) + 1 - i]]

\* TSection.YieldSections: for name in reversed(self.__sections)
YieldSections(heap, id) == Reverse(heap[id].sections)

\* TSection.YieldSectionsReversed: for section in self.__sections.values()
YieldSectionsReversed(heap, id) == heap[id].sections

\* the section tree below heap object id, as a value
RECURSIVE ToValue(_, _)
ToValue(heap, id) ==
  SectionNode(heap[id].name,
    [i \in 1..Len(heap[id].children) |->
       IF heap[id].children[i].isSec
       THEN ToValue(heap, heap[id].children[i].ref)
       ELSE SettingNode(heap[id].children[i].text)])

----------------------------------------------------------------------------
(* TConfigurationParser and TConfigurationDOMParser.  A machine m is the   *)
(* parser object, the section heap and the callbacks invoked so far.       *)

NoError == [kind |-> "none", line |-> 0, column |-> 0, message |-> ""]

\* TConfigurationParser.__init__ and TConfigurationDOMParser.__init__
NewParser ==
  [state |-> "START", prior |-> "NONE", name |-> <<>>, stack |-> <<>>,
   line |-> 1, column |-> 1, pos |-> 1, root |-> 0, err |-> NoError]

NewMachine == [parser |-> NewParser, secs |-> <<>>, events |-> <<>>]

\* raise TConfigurationFormatError(self.Line, self.Column, message)
FormatError(m, message) ==
  [m EXCEPT !.parser.err = [kind |-> "TConfigurationFormatError", line |-> m.parser.line,
                            column |-> m.parser.column, message |-> message]]

\* an exception of another class raised inside a callback
CallbackError(m, kind, message) ==
  [m EXCEPT !.parser.err = [kind |-> kind, line |-> 0, column |-> 0, message |-> message]]

Failed(m) == m.parser.err.kind # "none"

Emit(m, type, section, parent, text) ==
  [m EXCEPT !.events = Append(@, [type |-> type, section |-> section,
                                  parent |-> parent, text |-> text])]

\* TConfigurationDOMParser.SectionBeginHandler (parent 0 is None)
SectionBeginHandler(m, section, parent) ==
  LET e == Emit(m, "SectionBegin", section, parent, m.secs[section].name) IN
  IF e.parser.root = 0 THEN [e EXCEPT !.parser.root = section]
  ELSE IF parent = 0 THEN CallbackError(e, "AssertionError", "parent is not None")
  ELSE LET r == AddSection(e.secs, parent, section) IN
       IF r.ok THEN [e EXCEPT !.secs = r.heap]
       ELSE CallbackError(e, "RuntimeError", "Duplicate section name")

\* a SectionEnd callback that is never invoked
MutSectionEndHandler(m, section) == m

\* TConfigurationDOMParser.SectionEndHandler
SectionEndHandler(m, section) == Emit(m, "SectionEnd", section, 0, <<>>)

\* TConfigurationDOMParser.SettingHandler
SettingHandler(m, setting, section) ==
  [Emit(m, "Setting", section, 0, setting) EXCEPT !.secs = AddSetting(m.secs, section, setting)]

\* a comment that always resumes between the names of a section
MutEnterComment(m) == [m EXCEPT !.parser.prior = "PRE_NAME", !.parser.state = "LINE_COMMENT"]

EnterComment(m) == [m EXCEPT !.parser.prior = m.parser.state, !.parser.state = "LINE_COMMENT"]
BeginName(m)    == [m EXCEPT !.parser.name = <<>>, !.parser.state = "NAME"]

HandleStart(m, char) ==
  IF IsSpace(char) THEN m
  ELSE IF char = Quote THEN BeginName(m)
  ELSE IF char = "{" THEN FormatError(m, "Opening the top-level section without a name")
  ELSE IF char = "}" THEN FormatError(m, "Closing the top-level section without opening it")
  ELSE IF char \in CommentChars THEN EnterComment(m)
  ELSE FormatError(m, "Unexpected character at the top level")

\* a handler that lets a '}' pass whatever the stack holds
MutHandlePreName(m, char) == IF char = "}" THEN m ELSE HandleStart(m, char)

HandlePreName(m, char) ==
  IF IsSpace(char) THEN m
  ELSE IF char = Quote THEN BeginName(m)
  ELSE IF char = "}" THEN
    IF m.parser.stack = <<>>
    THEN FormatError(m, "Closing a nonexistent section at the top level")
    ELSE SectionEndHandler([m EXCEPT !.parser.stack = Front(@)], Last(m.parser.stack))
  ELSE IF char \in CommentChars THEN EnterComment(m)
  ELSE FormatError(m, "Unexpected character")

HandleName(m, char) ==
  IF char = Quote THEN [m EXCEPT !.parser.state = "NAME_ESCAPE"]
  ELSE [m EXCEPT !.parser.name = Append(@, char)]

\* a parser that hands every section to its callback as a top-level one
MutParentOf(stack) == 0

\* self.__section_stack[-1] if self.__section_stack else None
ParentOf(stack) == IF stack # <<>> THEN Last(stack) ELSE 0

HandlePostName(m, char) ==
  IF IsSpace(char) THEN m
  ELSE IF char = ";" THEN
    IF m.parser.stack = <<>> THEN FormatError(m, "Setting found in the top level")
    ELSE SettingHandler([m EXCEPT !.parser.state = "PRE_NAME"],
                        m.parser.name, Last(m.parser.stack))
  ELSE IF char = "{" THEN
    LET section == Len(m.secs) + 1
        made    == [m EXCEPT !.parser.state = "PRE_NAME",
                             !.secs = Append(@, NewSection(m.parser.name))]
        parent  == ParentOf(m.parser.stack)
        begun   == SectionBeginHandler(made, section, parent)
    IN  \* finally: the section is pushed even when the callback raised
        [begun EXCEPT !.parser.stack = Append(@, section)]
  ELSE IF char = "}" THEN
    IF m.parser.stack = <<>> THEN FormatError(m, "Closing a nonexistent section")
    ELSE LET section == Last(m.parser.stack)
             set     == SettingHandler([m EXCEPT !.parser.state = "PRE_NAME"],
                                       m.parser.name, section)
             popped  == [set EXCEPT !.parser.stack = Front(@)]
         IN  IF Failed(popped) THEN popped ELSE SectionEndHandler(popped, section)
  ELSE IF char \in CommentChars THEN EnterComment(m)
  ELSE FormatError(m, "Unexpected character")

HandleNameEscape(m, char) ==
  IF char = Quote THEN [m EXCEPT !.parser.name = Append(@, char), !.parser.state = "NAME"]
  ELSE HandlePostName([m EXCEPT !.parser.state = "POST_NAME"], char)

HandleLineComment(m, char) ==
  IF char = Newline THEN [m EXCEPT !.parser.state = m.parser.prior] ELSE m

\* the dispatch table TConfigurationParser.__Handlers
Handle(m, char) ==
  CASE m.parser.state = "START"        -> HandleStart(m, char)
    [] m.parser.state = "PRE_NAME"     -> HandlePreName(m, char)
    [] m.parser.state = "NAME"         -> HandleName(m, char)
    [] m.parser.state = "NAME_ESCAPE"  -> HandleNameEscape(m, char)
    [] m.parser.state = "POST_NAME"    -> HandlePostName(m, char)
    [] m.parser.state = "LINE_COMMENT" -> HandleLineComment(m, char)

\* a loop that does not start a new line at a newline
MutParseChar(m, char) ==
  LET h == Handle(m, char) IN
  IF Failed(h) THEN h
  ELSE [h EXCEPT !.parser.pos = @ + 1, !.parser.column = @ + 1]

\* one iteration of the loop of TConfigurationParser.ParseString
ParseChar(m, char) ==
  LET h == Handle(m, char) IN
  IF Failed(h) THEN h
  ELSE [h EXCEPT !.parser.pos = @ + 1,
                 !.parser.line = IF char = Newline THEN @ + 1 ELSE @,
                 !.parser.column = IF char = Newline THEN 1 ELSE @ + 1]

\* a Finish that looks at the state only
MutConfigFinish(m) ==
  IF m.parser.state # "PRE_NAME" THEN FormatError(m, "Incomplete document") ELSE m

\* TConfigurationParser.Finish
ConfigFinish(m) ==
  IF m.parser.state # "PRE_NAME" \/ m.parser.stack # <<>>
  THEN FormatError(m, "Incomplete document")
  ELSE m

Machine == [parser |-> parser, secs |-> secs, events |-> events]

\* the shadow parser: m is the parser, skipping says that the text is inside
\* a comment the shadow is not fed, cut that such a comment came right after
\* the closing quote of a name, valid that every comment left out so far
\* stood between two tokens of the text the shadow was fed
NewShadow == [m |-> NewMachine, skipping |-> FALSE, cut |-> FALSE, valid |-> TRUE]

----------------------------------------------------------------------------
(* The configuration round trip: write a tree, feed the text to a DOM      *)
(* parser one character at a time, then Finish.                            *)

CfgInit ==
  /\ tree \in Trees
  /\ pretty \in BOOLEAN
  /\ cfgText = <<>>
  /\ parser = NewParser
  /\ secs = <<>>
  /\ events = <<>>
  /\ cfgPc = "write"
  /\ consumed = <<>>
  /\ shadow = NewShadow

CfgIdle ==
  /\ tree = SectionNode(<<>>, <<>>)
  /\ pretty = FALSE
  /\ cfgText = <<>>
  /\ parser = NewParser
  /\ secs = <<>>
  /\ events = <<>>
  /\ cfgPc = "idle"
  /\ consumed = <<>>
  /\ shadow = NewShadow

\* WriteConfiguration(fobj, tree, pretty)
CfgWrite ==
  /\ cfgPc = "write"
  /\ cfgText' = WriteConfiguration(tree, pretty)
  /\ cfgPc' = "parse"
  /\ UNCHANGED <<tree, pretty, parser, secs, events, consumed, shadow>>
  /\ UNCHANGED <<logVars, selVars, schedVars, deckVars>>

\* ParseString on the next character of the written text
CfgParse ==
  /\ cfgPc = "parse"
  /\ cfgText # <<>>
  /\ LET m == ParseChar(Machine, Head(cfgText)) IN
       /\ parser' = m.parser
       /\ secs' = m.secs
       /\ events' = m.events
       /\ cfgPc' = IF Failed(m) THEN "raised" ELSE "parse"
  /\ cfgText' = Tail(cfgText)
  /\ UNCHANGED <<tree, pretty, consumed, shadow>>
  /\ UNCHANGED <<logVars, selVars, schedVars, deckVars>>

\* Finish() once the text is consumed
CfgFinish ==
  /\ cfgPc = "parse"
  /\ cfgText = <<>>
  /\ LET m == ConfigFinish(Machine) IN
       /\ parser' = m.parser
       /\ cfgPc' = IF Failed(m) THEN "raised" ELSE "done"
  /\ UNCHANGED <<tree, pretty, cfgText, secs, events, consumed, shadow>>
  /\ UNCHANGED <<logVars, selVars, schedVars, deckVars>>

CfgNext == CfgWrite \/ CfgParse \/ CfgFinish

----------------------------------------------------------------------------
(* A DOM parser fed arbitrary text: ParseString calls on strings of one    *)
(* character, or of two that begin with a quote or a newline, then Finish. *)

MaxText  == 10    \* characters fed in all
MaxLines == 2     \* value of Line up to which newlines are fed
MaxName  == 1     \* length of a section or setting name

Alphabet == {Quote, "{", "}", ";", "#", Newline}
Chunks   == { <<c>> : c \in Alphabet } \cup { <<c, d>> : c \in {Quote, Newline}, d \in Alphabet }

\* the characters fed inside a name, besides the quote
NameChars == {"#", Newline}

\* the states in which the parser is between two tokens
BetweenTokens == {"START", "PRE_NAME", "NAME_ESCAPE", "POST_NAME"}

\* the bounds on what is fed next
MayFeed(m, char) ==
  /\ m.parser.pos <= MaxText
  /\ char = Newline => m.parser.line < MaxLines
  /\ (m.parser.state = "NAME" /\ char # Quote) =>
       char \in NameChars /\ Len(m.parser.name) < MaxName
  /\ (m.parser.state = "NAME_ESCAPE" /\ char = Quote) => Len(m.parser.name) < MaxName

\* the shadow parser handles char unless char belongs to a line comment that
\* stands between two tokens of the shadow's text; its position counters are
\* left alone, as they take no part in what it emits
FeedShadow(s, char) ==
  IF ~s.valid \/ Failed(s.m) THEN s
  ELSE IF s.skipping THEN [s EXCEPT !.skipping = (char # Newline)]
  ELSE IF char \in CommentChars /\ s.m.parser.state \in BetweenTokens
    THEN [s EXCEPT !.skipping = TRUE, !.cut = @ \/ s.m.parser.state = "NAME_ESCAPE"]
  ELSE IF s.cut /\ char = Quote /\ s.m.parser.state = "NAME_ESCAPE"
    THEN [s EXCEPT !.valid = FALSE]
  ELSE [s EXCEPT !.m = Handle(s.m, char), !.cut = FALSE]

\* TConfigurationParser.ParseString(text) from the index-th character on;
\* d holds the parser, the shadow and the record of consumed characters
RECURSIVE ParseString(_, _, _)
ParseString(d, text, index) ==
  IF index > Len(text) \/ Failed(d.m) \/ ~d.fed THEN d
  ELSE IF ~MayFeed(d.m, text[index]) THEN [d EXCEPT !.fed = FALSE]
  ELSE LET m == ParseChar(d.m, text[index]) IN
       ParseString([m |-> m,
                    shadow |-> FeedShadow(d.shadow, text[index]),
                    consumed |-> IF Failed(m) THEN d.consumed
                                 ELSE Append(d.consumed, text[index] = Newline),
                    fed |-> TRUE],
                   text, index + 1)

FeedInit ==
  /\ tree = SectionNode(<<>>, <<>>)
  /\ pretty = FALSE
  /\ cfgText = <<>>
  /\ parser = NewParser
  /\ secs = <<>>
  /\ events = <<>>
  /\ cfgPc = "feed"
  /\ consumed = <<>>
  /\ shadow = NewShadow

\* parser.ParseString(text)
CfgParseString ==
  /\ cfgPc = "feed"
  /\ \E text \in Chunks :
       LET d == ParseString([m |-> Machine, shadow |-> shadow,
                             consumed |-> consumed, fed |-> TRUE], text, 1) IN
         /\ d.fed
         /\ parser' = d.m.parser
         /\ secs' = d.m.secs
         /\ events' = d.m.events
         /\ consumed' = d.consumed
         /\ shadow' = d.shadow
         /\ cfgPc' = IF Failed(d.m) THEN "raised" ELSE "feed"
  /\ UNCHANGED <<tree, pretty, cfgText>>
  /\ UNCHANGED <<logVars, selVars, schedVars, deckVars>>

\* parser.Finish()
CfgFeedFinish ==
  /\ cfgPc = "feed"
  /\ LET m == ConfigFinish(Machine) IN
       /\ parser' = m.parser
       /\ secs' = m.secs
       /\ events' = m.events
       /\ cfgPc' = IF Failed(m) THEN "unfinished" ELSE "finished"
  /\ UNCHANGED <<tree, pretty, cfgText, consumed, shadow>>
  /\ UNCHANGED <<logVars, selVars, schedVars, deckVars>>

FeedNext == CfgParseString \/ CfgFeedFinish

----------------------------------------------------------------------------
(* A client that builds a tree with the methods of TSection                *)

MaxSections == 3    \* TSection objects the client holds
MaxAdds     == 3    \* children added in all

RECURSIVE ChildCount(_)
ChildCount(heap) ==
  IF heap = <<>> THEN 0 ELSE Len(Last(heap).children) + ChildCount(Front(heap))

TreeInit ==
  /\ tree = SectionNode(<<>>, <<>>)
  /\ pretty = FALSE
  /\ cfgText = <<>>
  /\ parser = NewParser
  /\ secs \in [1..MaxSections -> { NewSection(name) : name \in SectionNames }]
  /\ events = <<>>
  /\ cfgPc = "tree"
  /\ consumed = <<>>
  /\ shadow = NewShadow

\* parent.AddSection(section); the method asserts section is not self
TreeAddSection ==
  /\ cfgPc = "tree"
  /\ ChildCount(secs) < MaxAdds
  /\ \E parent \in DOMAIN secs, section \in DOMAIN secs :
       /\ section # parent
       /\ LET r == AddSection(secs, parent, section) IN
            /\ secs' = r.heap
            /\ cfgPc' = IF r.ok THEN "tree" ELSE "KeyError"
  /\ UNCHANGED <<tree, pretty, cfgText, parser, events, consumed, shadow>>
  /\ UNCHANGED <<logVars, selVars, schedVars, deckVars>>

\* section.AddSetting(setting)
TreeAddSetting ==
  /\ cfgPc = "tree"
  /\ ChildCount(secs) < MaxAdds
  /\ \E section \in DOMAIN secs, setting \in SettingTexts :
       secs' = AddSetting(secs, section, setting)
  /\ UNCHANGED <<tree, pretty, cfgText, parser, events, cfgPc, consumed, shadow>>
  /\ UNCHANGED <<logVars, selVars, schedVars, deckVars>>

TreeNext == TreeAddSection \/ TreeAddSetting

----------------------------------------------------------------------------
(* TLogWriter                                                              *)

\* TLogWriter.__WriteField
WriteField(field, isFinalField) ==
  IF field # <<>>
  THEN <<Quote>> \o WriteEncodedString(field)
         \o (IF ~isFinalField THEN <<Quote, ":">> ELSE <<Quote>>)
  ELSE IF ~isFinalField THEN <<":">> ELSE <<>>

RECURSIVE WriteFields(_, _)
\* the for loop of TLogWriter.Write, from the index-th field on
WriteFields(fields, index) ==
  IF index > Len(fields) THEN <<>>
  ELSE WriteField(fields[index], index = Len(fields)) \o WriteFields(fields, index + 1)

\* TLogWriter.Write.  In the one-field branch a non-empty field is passed on
\* through the loop variable 'field', which is a local that has no value
\* there: Python raises UnboundLocalError before anything is written.
LogWrite(fields) ==
  IF Len(fields) = 1
  THEN IF fields[1] # <<>>
       THEN [raised |-> "UnboundLocalError", text |-> <<>>]
       ELSE [raised |-> "none", text |-> <<Quote, Quote, Newline>>]
  ELSE [raised |-> "none", text |-> WriteFields(fields, 1) \o <<Newline>>]

----------------------------------------------------------------------------
(* TLogParser.  A machine m is the parser object and the records handed to *)
(* the record callback so far.                                             *)

\* TLogParser.__init__
NewLogParser ==
  [state |-> "PRE_FIELD", line |-> 1, column |-> 1, pos |-> 1, entry |-> 1,
   fields |-> <<>>, buffer |-> <<>>, colonSeen |-> FALSE,
   err |-> [kind |-> "none", line |-> 0, column |-> 0, entry |-> 0]]

\* raise TLogFormatError(self.Line, self.Column, self.EntryNumber, ...)
LogFormatError(m) ==
  [m EXCEPT !.p.err = [kind |-> "TLogFormatError", line |-> m.p.line,
                       column |-> m.p.column, entry |-> m.p.entry]]

LogFailed(m) == m.p.err.kind # "none"

\* a __FinishEntry that adds no field for a trailing ':'
MutFinishEntry(m, newState) ==
  LET closed == [m EXCEPT !.p.state = newState, !.p.colonSeen = FALSE] IN
  IF m.p.fields # <<>>
  THEN [closed EXCEPT !.p.fields = <<>>, !.p.entry = @ + 1, !.out = Append(@, m.p.fields)]
  ELSE closed

\* TLogParser.__FinishEntry
FinishEntry(m, newState) ==
  LET fields == IF m.p.colonSeen THEN Append(m.p.fields, <<>>) ELSE m.p.fields
      closed == [m EXCEPT !.p.state = newState, !.p.fields = fields,
                          !.p.colonSeen = FALSE]
  IN  IF fields # <<>>
      THEN [closed EXCEPT !.p.fields = <<>>, !.p.entry = @ + 1,
                          !.out = Append(@, fields)]
      ELSE closed

LogHandlePreField(m, char) ==
  IF ~IsSpace(char) THEN
    IF char = Quote THEN [m EXCEPT !.p.state = "FIELD", !.p.colonSeen = FALSE]
    ELSE IF char = ":" THEN [m EXCEPT !.p.fields = Append(@, <<>>), !.p.colonSeen = TRUE]
    ELSE IF char \in CommentChars THEN FinishEntry(m, "LINE_COMMENT")
    ELSE LogFormatError(m)
  ELSE IF char = Newline THEN FinishEntry(m, "PRE_FIELD")
  ELSE m

LogHandleField(m, char) ==
  IF char = Quote THEN [m EXCEPT !.p.state = "FIELD_ESCAPE"]
  ELSE [m EXCEPT !.p.buffer = Append(@, char)]

LogHandleFieldEscape(m, char) ==
  IF char = Quote THEN [m EXCEPT !.p.buffer = Append(@, char), !.p.state = "FIELD"]
  ELSE LET f == [m EXCEPT !.p.fields = Append(@, m.p.buffer), !.p.buffer = <<>>] IN
       IF char = Newline THEN FinishEntry(f, "PRE_FIELD")
       ELSE IF IsSpace(char) THEN [f EXCEPT !.p.state = "POST_FIELD_PRE_COLON"]
       ELSE IF char = ":" THEN [f EXCEPT !.p.state = "PRE_FIELD", !.p.colonSeen = TRUE]
       ELSE IF char \in CommentChars THEN FinishEntry(f, "LINE_COMMENT")
       ELSE LogFormatError(f)

LogHandlePostFieldPreColon(m, char) ==
  IF ~IsSpace(char) THEN
    IF char = ":" THEN [m EXCEPT !.p.state = "PRE_FIELD", !.p.colonSeen = TRUE]
    ELSE IF char \in CommentChars THEN FinishEntry(m, "LINE_COMMENT")
    ELSE LogFormatError(m)
  ELSE IF char = Newline THEN FinishEntry(m, "PRE_FIELD")
  ELSE m

\* a comment in which a quote is an error
MutLogHandleLineComment(m, char) ==
  IF char = Newline THEN [m EXCEPT !.p.state = "PRE_FIELD"]
  ELSE IF char = Quote THEN LogFormatError(m)
  ELSE m

LogHandleLineComment(m, char) ==
  IF char = Newline THEN [m EXCEPT !.p.state = "PRE_FIELD"] ELSE m

\* the dispatch table TLogParser.__Handlers
LogHandle(m, char) ==
  CASE m.p.state = "PRE_FIELD"            -> LogHandlePreField(m, char)
    [] m.p.state = "FIELD"                -> LogHandleField(m, char)
    [] m.p.state = "FIELD_ESCAPE"         -> LogHandleFieldEscape(m, char)
    [] m.p.state = "POST_FIELD_PRE_COLON" -> LogHandlePostFieldPreColon(m, char)
    [] m.p.state = "LINE_COMMENT"         -> LogHandleLineComment(m, char)

\* one iteration of the loop of TLogParser.ParseString
LogParseChar(m, char) ==
  LET h == LogHandle(m, char) IN
  IF LogFailed(h) THEN h
  ELSE [h EXCEPT !.p.pos = @ + 1,
                 !.p.line = IF char = Newline THEN @ + 1 ELSE @,
                 !.p.column = IF char = Newline THEN 1 ELSE @ + 1]

\* a set of finish states that takes in the state after a closing quote
MutLogFinishStates == {"PRE_FIELD", "FIELD_ESCAPE", "POST_FIELD_PRE_COLON", "LINE_COMMENT"}

\* TLogParser.__FINISH_STATES
LogFinishStates == {"PRE_FIELD", "POST_FIELD_PRE_COLON", "LINE_COMMENT"}

\* TLogParser.Finish
LogFinish(m) ==
  IF m.p.state \notin LogFinishStates THEN LogFormatError(m)
  ELSE FinishEntry(m, "PRE_FIELD")

LogMachine == [p |-> logp, out |-> delivered]

----------------------------------------------------------------------------
(* The log round trip: write one record, feed the line to a TLogParser one *)
(* character at a time, then Finish.                                       *)

NoLine == [line |-> <<>>, before |-> 0]

MaxFields == 3
FieldTexts == { <<>>, <<"a">>, <<Quote, ":">> }
Records == UNION { [1..n -> FieldTexts] : n \in 1..MaxFields }

LogInit ==
  /\ record \in Records
  /\ logText = <<>>
  /\ logp = NewLogParser
  /\ delivered = <<>>
  /\ logPc = "write"
  /\ fed = NoLine

LogIdle ==
  /\ record = <<>>
  /\ logText = <<>>
  /\ logp = NewLogParser
  /\ delivered = <<>>
  /\ logPc = "idle"
  /\ fed = NoLine

\* TLogWriter.Write(record)
LogDoWrite ==
  /\ logPc = "write"
  /\ LET w == LogWrite(record) IN
       /\ logText' = w.text
       /\ logPc' = IF w.raised = "none" THEN "parse" ELSE w.raised
  /\ UNCHANGED <<record, logp, delivered, fed>>
  /\ UNCHANGED <<cfgVars, selVars, schedVars, deckVars>>

\* ParseString on the next character of the written line
LogDoParse ==
  /\ logPc = "parse"
  /\ logText # <<>>
  /\ LET m == LogParseChar(LogMachine, Head(logText)) IN
       /\ logp' = m.p
       /\ delivered' = m.out
       /\ logPc' = IF LogFailed(m) THEN "raised" ELSE "parse"
  /\ logText' = Tail(logText)
  /\ UNCHANGED <<record, fed>>
  /\ UNCHANGED <<cfgVars, selVars, schedVars, deckVars>>

\* Finish() once the line is consumed
LogDoFinish ==
  /\ logPc = "parse"
  /\ logText = <<>>
  /\ LET m == LogFinish(LogMachine) IN
       /\ logp' = m.p
       /\ delivered' = m.out
       /\ logPc' = IF LogFailed(m) THEN "raised" ELSE "done"
  /\ UNCHANGED <<record, logText, fed>>
  /\ UNCHANGED <<cfgVars, selVars, schedVars, deckVars>>

LogNext == LogDoWrite \/ LogDoParse \/ LogDoFinish

----------------------------------------------------------------------------
(* A TLogParser fed arbitrary text, one character per ParseString call,    *)
(* then Finish.                                                            *)

MaxLogText == 6    \* characters fed in all

LogAlphabet == {Quote, ":", "#", Space, Newline}

\* a reading of the text of a line, left to right: inQuote inside a quoted
\* field, inComment after a comment character outside quotes; pieces has one
\* entry per stretch between ':' outside quotes and comments, TRUE when the
\* stretch holds a quoted field; colons and quotes count what the comment holds
RECURSIVE Scan(_)
Scan(text) ==
  IF text = <<>>
  THEN [inQuote |-> FALSE, inComment |-> FALSE, pieces |-> <<FALSE>>,
        colons |-> 0, quotes |-> 0]
  ELSE LET s == Scan(Front(text))
           char == Last(text)
       IN  IF s.inComment
           THEN [s EXCEPT !.colons = IF char = ":" THEN @ + 1 ELSE @,
                          !.quotes = IF char = Quote THEN @ + 1 ELSE @]
           ELSE IF s.inQuote THEN [s EXCEPT !.inQuote = (char # Quote)]
           ELSE IF char = Quote
             THEN [s EXCEPT !.inQuote = TRUE, !.pieces[Len(s.pieces)] = TRUE]
           ELSE IF char = ":" THEN [s EXCEPT !.pieces = Append(@, FALSE)]
           ELSE IF char \in CommentChars THEN [s EXCEPT !.inComment = TRUE]
           ELSE s

\* the line ends with a newline that is not part of a quoted field
Terminated(line) ==
  line # <<>> /\ Last(line) = Newline /\ ~Scan(Front(line)).inQuote

LogFeedInit ==
  /\ record = <<>>
  /\ logText = <<>>
  /\ logp = NewLogParser
  /\ delivered = <<>>
  /\ logPc = "feed"
  /\ fed = NoLine

\* parser.ParseString(char)
LogParseString ==
  /\ logPc = "feed"
  /\ logp.pos <= MaxLogText
  /\ \E char \in LogAlphabet :
       LET m == LogParseChar(LogMachine, char) IN
         /\ logp' = m.p
         /\ delivered' = m.out
         /\ logPc' = IF LogFailed(m) THEN "raised" ELSE "feed"
         /\ fed' = IF Terminated(fed.line)
                    THEN [line |-> <<char>>, before |-> Len(delivered)]
                    ELSE [fed EXCEPT !.line = Append(@, char)]
  /\ UNCHANGED <<record, logText>>
  /\ UNCHANGED <<cfgVars, selVars, schedVars, deckVars>>

\* parser.Finish()
LogFeedFinish ==
  /\ logPc = "feed"
  /\ LET m == LogFinish(LogMachine) IN
       /\ logp' = m.p
       /\ delivered' = m.out
       /\ logPc' = IF LogFailed(m) THEN "unfinished" ELSE "finished"
  /\ UNCHANGED <<record, logText, fed>>
  /\ UNCHANGED <<cfgVars, selVars, schedVars, deckVars>>

LogFeedNext == LogParseString \/ LogFeedFinish

----------------------------------------------------------------------------
(* TRandomSelector.  The sample is a heapq heap of (tag, id(o), o); the    *)
(* model keeps it as the set of its entries [tag, o].  heapq keeps the     *)
(* least tuple at index 0; id(o) is an arbitrary address, distinct for     *)
(* distinct live objects, so among the entries with the least tag any one  *)
(* can be the least tuple.                                                 *)

\* values random() returns, for a selector fed a stream and for the
\* selectors and the heap of ConstructDeck
Tags == {0, 1, 2}
BuildTags == {0, 1}

\* TRandomSelector.__init__
NewSelector(capacity) == [capacity |-> capacity, sample |-> {}]

\* the entries that can be sample[0]
Smallest(sample) == { e \in sample : \A f \in sample : e.tag <= f.tag }

\* an Add that never gives up an entry once the sample is full
MutKeepsFirst(tag, least) == FALSE

\* an Add that turns down an offer whose tag ties with the least
MutReplaces(tag, least) == tag > least.tag

\* does Add keep a full sample's least entry out in favour of the offer?
Replaces(tag, least) == tag >= least.tag

\* TRandomSelector.Add(o) with random() = tag: the possible outcomes.
\* sample[0] of an empty list raises IndexError.
SelAdd(s, tag, o) ==
  IF Cardinality(s.sample) < s.capacity
  THEN { [sel |-> [s EXCEPT !.sample = @ \cup {[tag |-> tag, o |-> o]}],
          added |-> TRUE, raised |-> "none"] }
  ELSE IF s.sample = {}
  THEN { [sel |-> s, added |-> FALSE, raised |-> "IndexError"] }
  ELSE { IF Replaces(tag, least)
         THEN [sel |-> [s EXCEPT !.sample = (@ \ {least}) \cup {[tag |-> tag, o |-> o]}],
               added |-> TRUE, raised |-> "none"]
         ELSE [sel |-> s, added |-> FALSE, raised |-> "none"]
         : least \in Smallest(s.sample) }

\* TRandomSelector.__iter__: the sampled objects
Sampled(s) == { e.o : e \in s.sample }

\* TRandomSelector.ConsumeSequence on items i, i+1, ... when random() returns
\* tags[i], tags[i+1], ... for them: Add for each item in turn
RECURSIVE ConsumeTags(_, _, _)
ConsumeTags(s, tags, i) ==
  IF i > Len(tags) THEN s
  ELSE LET r == CHOOSE x \in SelAdd(s, tags[i], i) : TRUE
       IN  IF r.raised # "none" THEN r.sel ELSE ConsumeTags(r.sel, tags, i + 1)

\* random() draws independent values from one continuous distribution: ties
\* have probability zero and the n! relative orders of n tags, written as the
\* sequences of their ranks, are equally likely
TagOrders(n) == { t \in [1..n -> 1..n] : \A i, j \in 1..n : i # j => t[i] # t[j] }

----------------------------------------------------------------------------
(* A selector fed a stream of distinct items                               *)

MaxCapacity == 3
MaxItems == 4

NoAdd == [before |-> {}, added |-> FALSE]

SelInit ==
  /\ sel \in { NewSelector(k) : k \in 0..MaxCapacity }
  /\ selOffered = 0
  /\ selPc = "run"
  /\ selStream = <<>>
  /\ selLast = NoAdd

SelIdle ==
  /\ sel = NewSelector(0)
  /\ selOffered = 0
  /\ selPc = "idle"
  /\ selStream = <<>>
  /\ selLast = NoAdd

\* Add(o) on the next item of the stream
SelOffer ==
  /\ selPc = "run"
  /\ selOffered < MaxItems
  /\ \E tag \in Tags : \E r \in SelAdd(sel, tag, selOffered + 1) :
       /\ sel' = r.sel
       /\ selPc' = IF r.raised = "none" THEN "run" ELSE r.raised
       /\ selStream' = Append(selStream, tag)
       /\ selLast' = [before |-> sel.sample, added |-> r.added]
  /\ selOffered' = selOffered + 1
  /\ UNCHANGED <<cfgVars, logVars, schedVars, deckVars>>

SelNext == SelOffer

----------------------------------------------------------------------------
(* TLeitnerBucket, TFlashcardStub and the two passes of                    *)
(* TCardDeckFactory.__init__                                               *)

\* self.__now = time.time(), fixed for the session
Now == 10
\* TFlashcardStub._NEVER_TOUCHED = float("-inf"): below every timestamp
NeverTouched == -1000

\* float arithmetic on -inf
PlusDelay(dateTouched, delay) ==
  IF dateTouched = NeverTouched THEN NeverTouched ELSE dateTouched + delay

\* TFlashcardStub.__init__
NewStub == [bucket |-> 0, due |-> NeverTouched]
\* TFlashcardStub.IsDue
IsDue(stub, now) == stub.due <= now
\* TFlashcardStub.IsNewCard
IsNewCard(stub) == stub.due = NeverTouched

\* TLeitnerBucket.__init__
NewBucket(delay) == [delay |-> delay, numCards |-> 0, numDue |-> 0]

\* A scheduling state t: the bucket list, the stub map, the new-card counter
\* and the exception raised, if any.  Bucket index b is buckets[b + 1].

\* an AddStub that does not count a never-touched card as due
MutCountsAsDue(stub, now) == stub.due <= now /\ stub.due # NeverTouched

\* does AddStub count the stub as due?
CountsAsDue(stub, now) == IsDue(stub, now)

\* TLeitnerBucket.AddStub(stub, date_touched, now) on bucket b for the stub of h
AddStub(t, b, h, dateTouched, now) ==
  LET due  == PlusDelay(dateTouched, t.buckets[b + 1].delay)
      stub == [t.stubs[h] EXCEPT !.due = due]
  IN  [t EXCEPT !.stubs[h] = stub,
                !.buckets[b + 1].numCards = @ + 1,
                !.buckets[b + 1].numDue = IF CountsAsDue(stub, now) THEN @ + 1 ELSE @]

\* TLeitnerBucket.RemoveStub(stub, now) on bucket b for the stub of h
RemoveStub(t, b, h, now) ==
  IF ~(t.buckets[b + 1].numCards > 0) THEN [t EXCEPT !.raised = "AssertionError"]
  ELSE IF ~IsDue(t.stubs[h], now) THEN [t EXCEPT !.buckets[b + 1].numCards = @ - 1]
  ELSE IF ~(t.buckets[b + 1].numDue > 0)
       THEN [t EXCEPT !.buckets[b + 1].numCards = @ - 1, !.raised = "AssertionError"]
  ELSE [t EXCEPT !.buckets[b + 1].numCards = @ - 1, !.buckets[b + 1].numDue = @ - 1]

\* CreateFlashcardStubMap.Handleカード: a fresh stub replaces whatever the map
\* held for the hash, and bucket 0 counts it
HandleCard(t, h, now) ==
  AddStub([t EXCEPT !.stubs = [x \in DOMAIN t.stubs \cup {h} |->
                                 IF x = h THEN NewStub ELSE t.stubs[x]]],
          0, h, NeverTouched, now)

\* a replay that leaves a retried card in its bucket
MutNewBucketIndex(oldBucket, numRetries, maxLeitnerBucket) ==
  IF numRetries = 0
  THEN oldBucket + (IF oldBucket < maxLeitnerBucket THEN 1 ELSE 0)
  ELSE oldBucket

\* new_bucket of ApplyStatsToStubMap.HandleLogEntry
NewBucketIndex(oldBucket, numRetries, maxLeitnerBucket) ==
  IF numRetries = 0
  THEN oldBucket + (IF oldBucket < maxLeitnerBucket THEN 1 ELSE 0)
  ELSE 0

\* a handler that counts a record for an unregistered card as a card seen
MutHandleLogEntry(t, r, now) ==
  IF r.hash \in DOMAIN t.stubs THEN t ELSE [t EXCEPT !.numNew = @ - 1]

\* ApplyStatsToStubMap.HandleLogEntry.  A record r is its field count and
\* its three fields; tsOk / retriesOk tell whether float() / int() accept
\* the text of the field.  Each raise statement evaluates parser.Line first,
\* and parser is a name neither of ApplyStatsToStubMap nor of the module:
\* what is raised is NameError.
HandleLogEntry(t, r, now) ==
  IF r.len # 3 THEN [t EXCEPT !.raised = "NameError"]
  ELSE IF r.hash \notin DOMAIN t.stubs THEN t
  ELSE IF ~r.tsOk THEN [t EXCEPT !.raised = "NameError"]
  ELSE IF ~r.retriesOk THEN [t EXCEPT !.raised = "NameError"]
  ELSE
    LET oldBucket == t.stubs[r.hash].bucket
        newBucket == NewBucketIndex(oldBucket, r.retries, Len(t.buckets) - 1)
        counted   == IF IsNewCard(t.stubs[r.hash]) THEN [t EXCEPT !.numNew = @ - 1] ELSE t
        removed   == RemoveStub(counted, oldBucket, r.hash, now)
    IN  IF removed.raised # "none" THEN removed
        ELSE [AddStub(removed, newBucket, r.hash, r.ts, now)
                EXCEPT !.stubs[r.hash].bucket = newBucket]

RECURSIVE SumDue(_)
\* sum(bucket.DueCardCount for bucket in buckets)
SumDue(bs) == IF bs = <<>> THEN 0 ELSE Head(bs).numDue + SumDue(Tail(bs))

RECURSIVE SumCards(_)
SumCards(bs) == IF bs = <<>> THEN 0 ELSE Head(bs).numCards + SumCards(Tail(bs))

----------------------------------------------------------------------------
(* Inputs of a scheduling session                                          *)

MaxCards   == 2
MaxRecords == 2
MaxSize    == 2
MaxQuota   == 2

\* content hashes of cards; UnknownHash occurs in the log only
Hashes      == {"h1", "h2"}
UnknownHash == "h9"
\* the LeitnerBuckets lists: bucket 0 has delay 0
DelayLists  == { <<0>>, <<0, 2>>, <<0, 2, 5>> }
\* timestamps of records: due in every bucket, due in bucket 0 only, not due,
\* and the text "-inf", which float() accepts
Timestamps  == {Now - 6, Now - 1, Now + 1, NeverTouched}
Retries     == {0, 1, 2}

WellFormed ==
  [len : {3}, tsOk : {TRUE}, ts : Timestamps, hash : Hashes \cup {UnknownHash},
   retriesOk : {TRUE}, retries : Retries]
Malformed ==
  { [len |-> 2, tsOk |-> TRUE, ts |-> Now - 1, hash |-> "h1", retriesOk |-> TRUE, retries |-> 0],
    [len |-> 3, tsOk |-> FALSE, ts |-> 0, hash |-> "h1", retriesOk |-> TRUE, retries |-> 0],
    [len |-> 3, tsOk |-> TRUE, ts |-> Now - 1, hash |-> "h1", retriesOk |-> FALSE, retries |-> 0] }
LogRecords == WellFormed \cup Malformed

NoRecord == [len |-> 0, tsOk |-> FALSE, ts |-> 0, hash |-> "", retriesOk |-> FALSE, retries |-> 0]
NoLast   == [count |-> 0, rec |-> NoRecord, known |-> FALSE, before |-> NewStub, seen |-> {}]
NoFactory == [cardCount |-> 0, numNew |-> 0, numDue |-> 0, log |-> "none"]
NoBuild ==
  [phase |-> "idle", reqSize |-> 0, reqQuota |-> 0, size |-> 0, numNewCards |-> 0,
   numDueCards |-> 0, noneDue |-> FALSE, index |-> 0,
   newSel |-> NewSelector(0), dueSel |-> NewSelector(0), selection |-> {},
   combined |-> NewSelector(0)]

Sched == [buckets |-> buckets, stubs |-> stubs, numNew |-> numNew, raised |-> "none"]

SchedInit ==
  /\ source = <<>>
  /\ buckets \in { [i \in 1..Len(d) |-> NewBucket(d[i])] : d \in DelayLists }
  /\ stubs = << >>
  /\ numNew = 0
  /\ factory = NoFactory
  /\ build = NoBuild
  /\ last = NoLast
  /\ schedPc = "cards"

SchedIdle ==
  /\ source = <<>>
  /\ buckets = <<NewBucket(0)>>
  /\ stubs = << >>
  /\ numNew = 0
  /\ factory = NoFactory
  /\ build = NoBuild
  /\ last = NoLast
  /\ schedPc = "idle"

\* pass 1: the flashcard parser hands the next card of the file to Handleカード
ParseCard ==
  /\ schedPc = "cards"
  /\ Len(source) < MaxCards
  /\ \E h \in Hashes :
       LET t == HandleCard(Sched, h, Now) IN
         /\ source' = Append(source, h)
         /\ buckets' = t.buckets
         /\ stubs' = t.stubs
  /\ UNCHANGED <<numNew, factory, build, last, schedPc>>
  /\ UNCHANGED <<cfgVars, logVars, selVars, deckVars>>

\* end of the flashcard file: CreateFlashcardStubMap returns and
\* ApplyStatsToStubMap starts with num_new_cards = len(hashes_to_stubs)
EndOfCards ==
  /\ schedPc = "cards"
  /\ numNew' = Cardinality(DOMAIN stubs)
  /\ factory' = [factory EXCEPT !.cardCount = Cardinality(DOMAIN stubs)]
  /\ schedPc' = "open"
  /\ UNCHANGED <<source, buckets, stubs, build, last>>
  /\ UNCHANGED <<cfgVars, logVars, selVars, deckVars>>

\* an except clause that swallows every IOError
MutTolerated(errno) == TRUE

\* the except clause of ParserCrank: which failure of open() is swallowed
Tolerated(errno) == errno = "ENOENT"

\* pass 2: ParserCrank opens the stats log; factory.log keeps how that went
\* ("opened", or the errno of the IOError)
OpenLog ==
  /\ schedPc = "open"
  /\ \E errno \in {"opened", "ENOENT", "EACCES"} :
       /\ factory' = [factory EXCEPT !.log = errno]
       /\ schedPc' = IF errno = "opened" THEN "replay"
                     ELSE IF Tolerated(errno) THEN "missing"
                     ELSE "IOError"
  /\ UNCHANGED <<source, buckets, stubs, numNew, build, last>>
  /\ UNCHANGED <<cfgVars, logVars, selVars, deckVars>>

\* pass 2: the log parser hands the next record of the log to HandleLogEntry
ReplayRecord ==
  /\ schedPc = "replay"
  /\ last.count < MaxRecords
  /\ \E r \in LogRecords :
       LET t == HandleLogEntry(Sched, r, Now) IN
         /\ buckets' = t.buckets
         /\ stubs' = t.stubs
         /\ numNew' = t.numNew
         /\ schedPc' = IF t.raised = "none" THEN "replay" ELSE t.raised
         /\ last' = [count |-> last.count + 1, rec |-> r,
                     known |-> r.hash \in DOMAIN stubs,
                     before |-> IF r.hash \in DOMAIN stubs THEN stubs[r.hash] ELSE NewStub,
                     seen |-> last.seen \cup {r.hash}]
  /\ UNCHANGED <<source, factory, build>>
  /\ UNCHANGED <<cfgVars, logVars, selVars, deckVars>>

\* end of the log: ApplyStatsToStubMap returns the two counts and
\* TCardDeckFactory.__init__ asserts that new cards are due
EndOfLog ==
  /\ schedPc \in {"replay", "missing"}
  /\ factory' = [factory EXCEPT !.numNew = numNew, !.numDue = SumDue(buckets)]
  /\ schedPc' = IF numNew <= SumDue(buckets) THEN "ready" ELSE "AssertionError"
  /\ last' = [NoLast EXCEPT !.seen = last.seen]
  /\ UNCHANGED <<source, buckets, stubs, numNew, build>>
  /\ UNCHANGED <<cfgVars, logVars, selVars, deckVars>>

----------------------------------------------------------------------------
(* TCardDeckFactory.ConstructDeck.  A card object is the position of its   *)
(* card in the flashcard file; its hash is source[card].                   *)

Min(a, b) == IF a <= b THEN a ELSE b
Max(a, b) == IF a >= b THEN a ELSE b

\* a quota that is not clamped to the new cards there are
MutNewQuota(quota, f) == quota

\* num_new_cards = min(num_new_cards, self.__num_new_cards)
NewQuota(quota, f) == Min(quota, f.numNew)
\* a due quota that leaves no room for the new cards
MutDueQuota(size, numNewCards, f) == Min(size, f.numDue)

\* num_due_cards = max(min(size, self.__num_due_cards) - num_new_cards, 0)
DueQuota(size, numNewCards, f) == Max(Min(size, f.numDue) - numNewCards, 0)
\* size = min(size, self.__card_count)
OverdueSize(size, f) == Min(size, f.cardCount)

\* the parameter checks and the set-up before the flashcard file is parsed
BeginBuild(size, quota, f) ==
  IF size <= 0 \/ quota < 0
  THEN [NoBuild EXCEPT !.phase = "RuntimeError", !.reqSize = size, !.reqQuota = quota]
  ELSE IF f.numDue = 0
  THEN [NoBuild EXCEPT !.phase = "offer", !.reqSize = size, !.reqQuota = quota,
                       !.numNewCards = NewQuota(quota, f), !.noneDue = TRUE,
                       !.size = OverdueSize(size, f)]
  ELSE [NoBuild EXCEPT !.phase = "offer", !.reqSize = size, !.reqQuota = quota,
                       !.numNewCards = NewQuota(quota, f), !.size = size,
                       !.numDueCards = DueQuota(size, NewQuota(quota, f), f),
                       !.newSel = NewSelector(NewQuota(quota, f)),
                       !.dueSel = NewSelector(DueQuota(size, NewQuota(quota, f), f))]

\* a heap key with the sign turned round
MutHeapKey(stub, now) == stub.due - now

\* heap_key = self.__now - stub.DueDate
HeapKey(stub, now) == now - stub.due

\* the entries of selection that can be selection[0]: least (heap_key, random())
SmallestSelected(selection) ==
  { e \in selection : \A f \in selection :
      e.key < f.key \/ (e.key = f.key /\ e.rnd <= f.rnd) }

\* OfferCard of the branch taken when no card is due: the possible outcomes
OfferOverdue(b, card, stub, now) ==
  LET key == HeapKey(stub, now) IN
  IF Cardinality(b.selection) < b.size
  THEN { [b EXCEPT !.selection = @ \cup {[key |-> key, rnd |-> rnd, card |-> card]}]
         : rnd \in BuildTags }
  ELSE IF b.selection = {} THEN { [b EXCEPT !.phase = "IndexError"] }
  ELSE UNION { IF key >= least.key
               THEN { [b EXCEPT !.selection =
                          (@ \ {least}) \cup {[key |-> key, rnd |-> rnd, card |-> card]}]
                      : rnd \in BuildTags }
               ELSE { b }
               : least \in SmallestSelected(b.selection) }

\* which sampler OfferCard of the other branch hands the card to
Route(b, stub, now) ==
  IF IsNewCard(stub) /\ b.numNewCards # 0 THEN "new"
  ELSE IF IsDue(stub, now) /\ b.numDueCards # 0 THEN "due"
  ELSE "skip"

\* OfferCard of the branch taken when some card is due: the possible outcomes
OfferDue(b, card, stub, now) ==
  CASE Route(b, stub, now) = "new" ->
         { [b EXCEPT !.newSel = r.sel,
                     !.phase = IF r.raised = "none" THEN @ ELSE r.raised]
           : r \in UNION { SelAdd(b.newSel, tag, card) : tag \in BuildTags } }
    [] Route(b, stub, now) = "due" ->
         { [b EXCEPT !.dueSel = r.sel,
                     !.phase = IF r.raised = "none" THEN @ ELSE r.raised]
           : r \in UNION { SelAdd(b.dueSel, tag, card) : tag \in BuildTags } }
    [] OTHER -> { b }

OfferCard(b, card, stub, now) ==
  { [n EXCEPT !.index = card]
    : n \in IF b.noneDue THEN OfferOverdue(b, card, stub, now)
                         ELSE OfferDue(b, card, stub, now) }

RECURSIVE Consume(_, _)
\* TRandomSelector.ConsumeSequence over the objects of items, which arrive
\* in any order: the possible outcomes
Consume(s, items) ==
  IF items = {} THEN { [sel |-> s, raised |-> "none"] }
  ELSE UNION { UNION { IF r.raised # "none"
                       THEN { [sel |-> r.sel, raised |-> r.raised] }
                       ELSE Consume(r.sel, items \ {o})
                       : r \in UNION { SelAdd(s, tag, o) : tag \in BuildTags } }
               : o \in items }

\* the cards YieldCards() yields first, and those it yields after them:
\* the new-card sample and then the due-card sample, or the overdue selection
YieldFirst(b)  == IF b.noneDue THEN { e.card : e \in b.selection } ELSE Sampled(b.newSel)
YieldSecond(b) == IF b.noneDue THEN {} ELSE Sampled(b.dueSel)

\* combined_results = TRandomSelector(self.__card_count);
\* combined_results.ConsumeSequence(YieldCards()): the possible outcomes
CombineResults(b, f) ==
  UNION { IF r.raised # "none" THEN { r } ELSE Consume(r.sel, YieldSecond(b))
          : r \in Consume(NewSelector(f.cardCount), YieldFirst(b)) }

\* the cards of the deck ConstructDeck returned
Deck == Sampled(build.combined)

\* a clamp that writes the clamped quota into the factory's new-card count
MutCountsAfterClamp(quota, f) == [f EXCEPT !.numNew = Min(quota, f.numNew)]

\* the factory after num_new_cards = min(num_new_cards, self.__num_new_cards):
\* the assignment is to the parameter, a local
CountsAfterClamp(quota, f) == f

\* ConstructDeck(size, quota) is called
ConstructDeck ==
  /\ schedPc = "ready"
  /\ build.phase = "idle"
  /\ \E size \in 0..MaxSize, quota \in -1..MaxQuota :
       /\ build' = BeginBuild(size, quota, factory)
       /\ factory' = IF size <= 0 \/ quota < 0 THEN factory
                      ELSE CountsAfterClamp(quota, factory)
  /\ UNCHANGED <<source, buckets, stubs, numNew, last, schedPc>>
  /\ UNCHANGED <<cfgVars, logVars, selVars, deckVars>>

\* the parser hands the next card of the file to OfferCard
Offer ==
  /\ build.phase = "offer"
  /\ build.index < Len(source)
  /\ build' \in OfferCard(build, build.index + 1, stubs[source[build.index + 1]], Now)
  /\ UNCHANGED <<source, buckets, stubs, numNew, factory, last, schedPc>>
  /\ UNCHANGED <<cfgVars, logVars, selVars, deckVars>>

\* end of the file: parser.Finish(), the samples are combined and
\* ConstructDeck returns combined_results
ReturnDeck ==
  /\ build.phase = "offer"
  /\ build.index = Len(source)
  /\ \E r \in CombineResults(build, factory) :
       build' = [build EXCEPT !.combined = r.sel,
                              !.phase = IF r.raised = "none" THEN "done" ELSE r.raised]
  /\ UNCHANGED <<source, buckets, stubs, numNew, factory, last, schedPc>>
  /\ UNCHANGED <<cfgVars, logVars, selVars, deckVars>>

\* the caller is done with the deck, or has caught the RuntimeError
Release ==
  /\ build.phase \in {"done", "RuntimeError"}
  /\ build' = NoBuild
  /\ UNCHANGED <<source, buckets, stubs, numNew, factory, last, schedPc>>
  /\ UNCHANGED <<cfgVars, logVars, selVars, deckVars>>

SchedNext ==
  \/ ParseCard \/ EndOfCards \/ OpenLog \/ ReplayRecord \/ EndOfLog
  \/ ConstructDeck \/ Offer \/ ReturnDeck \/ Release

----------------------------------------------------------------------------
(* TCardDeck and TCardDeckStatistics.  Cards are objects 1, 2, ...; None   *)
(* is 0.  RetryNumbers maps every card to its count, 0 for a card that is  *)
(* not a key of the map (a key's count is at least 1).                     *)

MaxDeckCards == 3
MaxAttempts == 3

DeckCards == 1..MaxDeckCards

\* TCardDeckStatistics.__init__
NewStatistics(cards) ==
  [cards |-> {}, numCards |-> Len(cards), numPassedOnFirstTry |-> 0,
   numFailedOnFirstTry |-> 0, numLeft |-> Len(cards), numAttempts |-> 0,
   retryMap |-> [c \in DeckCards |-> 0]]

\* a CardFailed that forgets to count the retry
MutCardFailed(st, card) == [st EXCEPT !.numAttempts = @ + 1]

\* TCardDeckStatistics.CardFailed
CardFailed(st, card) ==
  LET first == st.retryMap[card] = 0 IN
  [st EXCEPT !.numAttempts = @ + 1,
             !.numFailedOnFirstTry = IF first THEN @ + 1 ELSE @,
             !.cards = IF first THEN @ \cup {card} ELSE @,
             !.retryMap[card] = @ + 1]

\* a CardPassed that takes every pass for a pass on the first try
MutCardPassed(st, card) ==
  [st EXCEPT !.numAttempts = @ + 1,
             !.numPassedOnFirstTry = @ + 1,
             !.cards = @ \cup {card},
             !.numLeft = @ - 1]

\* TCardDeckStatistics.CardPassed
CardPassed(st, card) ==
  [st EXCEPT !.numAttempts = @ + 1,
             !.numPassedOnFirstTry = IF st.retryMap[card] = 0 THEN @ + 1 ELSE @,
             !.cards = @ \cup {card},
             !.numLeft = @ - 1]

\* TCardDeck.__init__
NewDeck(cards) ==
  [cards |-> cards, failedCards |-> <<>>, currentCard |-> 0,
   currentCardMarked |-> FALSE, statistics |-> NewStatistics(cards)]

\* random.shuffle: the orders the list can be left in
Shuffles(list) ==
  { [i \in 1..Len(list) |-> list[f[i]]] : f \in Permutations(1..Len(list)) }

\* a GetCard that draws from the failed pool while cards are pending
MutRecycles(d) == d.failedCards # <<>>

\* does GetCard turn the failed pool into the pending sequence?
Recycles(d) == d.cards = <<>>

\* a GetCard that reports an empty deck as soon as nothing is pending
MutNoCardsLeft(d) == d.cards = <<>>

\* does GetCard find nothing to draw?
NoCardsLeft(d) == d.cards = <<>> /\ d.failedCards = <<>>

\* a GetCard that refuses to draw once a card has been drawn
MutMayDraw(d) == d.currentCard = 0

\* the assertion of GetCard
MayDraw(d) == d.currentCard = 0 \/ d.currentCardMarked

\* TCardDeck.GetCard: the possible outcomes
GetCard(d) ==
  IF ~MayDraw(d) THEN { [deck |-> d, raised |-> "AssertionError", result |-> 0] }
  ELSE IF NoCardsLeft(d)
  THEN { [deck |-> d, raised |-> "TEmptyDeckError", result |-> 0] }
  ELSE { [deck |-> [d EXCEPT !.cards = Front(cards), !.failedCards = failed,
                             !.currentCard = Last(cards), !.currentCardMarked = FALSE],
          raised |-> "none", result |-> Last(cards)]
         : <<cards, failed>> \in
             IF Recycles(d) THEN { <<l, <<>>>> : l \in Shuffles(d.failedCards) }
             ELSE { <<d.cards, d.failedCards>> } }

\* a deck that lets the caller mark a card twice
MutMayMark(d) == d.currentCard # 0

\* the two assertions of MarkFailed and of MarkSucceeded
MayMark(d) == d.currentCard # 0 /\ ~d.currentCardMarked

\* a MarkFailed that does not put the card back
MutMarkFailed(d) ==
  IF ~MayMark(d) THEN [deck |-> d, raised |-> "AssertionError"]
  ELSE [deck |-> [d EXCEPT !.currentCardMarked = TRUE,
                           !.statistics = CardFailed(@, d.currentCard)],
        raised |-> "none"]

\* TCardDeck.MarkFailed
MarkFailed(d) ==
  IF ~MayMark(d) THEN [deck |-> d, raised |-> "AssertionError"]
  ELSE [deck |-> [d EXCEPT !.failedCards = Append(@, d.currentCard),
                           !.currentCardMarked = TRUE,
                           !.statistics = CardFailed(@, d.currentCard)],
        raised |-> "none"]

\* TCardDeck.MarkSucceeded
MarkSucceeded(d) ==
  IF ~MayMark(d) THEN [deck |-> d, raised |-> "AssertionError"]
  ELSE [deck |-> [d EXCEPT !.currentCardMarked = TRUE,
                           !.statistics = CardPassed(@, d.currentCard)],
        raised |-> "none"]

\* a HasCards that overlooks the failed pool
MutHasCards(d) == d.cards # <<>>

\* TCardDeck.HasCards
HasCards(d) == d.cards # <<>> \/ d.failedCards # <<>>

\* what the client has done with the deck so far: the cards it built the deck
\* from, how often it marked each card succeeded and failed, and how it
\* marked each card the first time
NoHistory ==
  [initial |-> <<>>, passed |-> [c \in DeckCards |-> 0],
   failed |-> [c \in DeckCards |-> 0], first |-> [c \in DeckCards |-> "none"]]

\* the history after a call of MarkFailed or MarkSucceeded on the card in hand
Marked(h, raised, card, how) ==
  IF raised # "none" THEN h
  ELSE [h EXCEPT ![how][card] = @ + 1,
                 !.first[card] = IF @ = "none" THEN how ELSE @]

\* the moments at which time.time() is read, in whole seconds
Instants == {7, 12}

RECURSIVE StrInt(_)
\* str() of a natural number
StrInt(n) ==
  LET digits == <<"0", "1", "2", "3", "4", "5", "6", "7", "8", "9">> IN
  IF n < 10 THEN <<digits[n + 1]>>
  ELSE StrInt(n \div 10) \o <<digits[(n % 10) + 1]>>

\* str() of a float that is a whole number of seconds
StrFloat(seconds) == StrInt(seconds) \o <<".", "0">>

\* card.Hash: the digest of the card's bytes, a hex string
CardHash(card) == <<"c">> \o StrInt(card)

\* the orders in which a for loop can meet the members of a set
Orders(set) ==
  { f \in [1..Cardinality(set) -> set] :
      \A i, j \in 1..Cardinality(set) : i # j => f[i] # f[j] }

RECURSIVE WriteRecords(_, _)
\* what the Write calls of a loop over the given records leave in the stream
WriteRecords(records, index) ==
  IF index > Len(records) THEN <<>>
  ELSE LogWrite(records[index]).text \o WriteRecords(records, index + 1)

\* a Log that walks the retry map instead of the set of cards seen
MutLog(st, now) ==
  { WriteRecords([i \in DOMAIN order |->
                    <<StrFloat(now), CardHash(order[i]), StrInt(st.retryMap[order[i]])>>], 1)
    : order \in Orders({ c \in DeckCards : st.retryMap[c] > 0 }) }

\* TCardDeckStatistics.Log: the texts the stream can hold afterwards
Log(st, now) ==
  { WriteRecords([i \in DOMAIN order |->
                    <<StrFloat(now), CardHash(order[i]), StrInt(st.retryMap[order[i]])>>], 1)
    : order \in Orders(st.cards) }

NoLog == [now |-> 0, text |-> <<>>]

NoCall ==
  [op |-> "none", raised |-> "none", result |-> 0, before |-> NewDeck(<<>>),
   hist |-> NoHistory, log |-> NoLog]

DeckInit ==
  \E cards \in UNION { [1..n -> DeckCards] : n \in 0..MaxDeckCards } :
    /\ deck = NewDeck(cards)
    /\ deckLast = [NoCall EXCEPT !.hist.initial = cards]

DeckIdle ==
  /\ deck = NewDeck(<<>>)
  /\ deckLast = NoCall

\* the client calls GetCard()
DeckGetCard ==
  /\ \E r \in GetCard(deck) :
       /\ deck' = r.deck
       /\ deckLast' = [op |-> "GetCard", raised |-> r.raised, result |-> r.result,
                       before |-> deck, hist |-> deckLast.hist, log |-> NoLog]
  /\ UNCHANGED <<cfgVars, logVars, selVars, schedVars>>

\* the client calls MarkFailed()
DeckMarkFailed ==
  /\ deck.statistics.numAttempts < MaxAttempts
  /\ LET r == MarkFailed(deck) IN
       /\ deck' = r.deck
       /\ deckLast' = [op |-> "MarkFailed", raised |-> r.raised, result |-> 0,
                       before |-> deck,
                       hist |-> Marked(deckLast.hist, r.raised, deck.currentCard, "failed"),
                       log |-> NoLog]
  /\ UNCHANGED <<cfgVars, logVars, selVars, schedVars>>

\* the client calls MarkSucceeded()
DeckMarkSucceeded ==
  /\ LET r == MarkSucceeded(deck) IN
       /\ deck' = r.deck
       /\ deckLast' = [op |-> "MarkSucceeded", raised |-> r.raised, result |-> 0,
                       before |-> deck,
                       hist |-> Marked(deckLast.hist, r.raised, deck.currentCard, "passed"),
                       log |-> NoLog]
  /\ UNCHANGED <<cfgVars, logVars, selVars, schedVars>>

\* the client has the statistics written: deck.Statistics.Log(stream) on an
\* empty stream
DeckLog ==
  /\ \E now \in Instants : \E text \in Log(deck.statistics, now) :
       deckLast' = [op |-> "Log", raised |-> "none", result |-> 0, before |-> deck,
                    hist |-> deckLast.hist, log |-> [now |-> now, text |-> text]]
  /\ UNCHANGED deck
  /\ UNCHANGED <<cfgVars, logVars, selVars, schedVars>>

DeckNext == DeckGetCard \/ DeckMarkFailed \/ DeckMarkSucceeded \/ DeckLog

----------------------------------------------------------------------------
(* Specifications                                                          *)

\* the configuration round trip
InitConfig == CfgInit /\ LogIdle /\ SelIdle /\ SchedIdle /\ DeckIdle
SpecConfig == InitConfig /\ [][CfgNext]_vars

\* a DOM parser fed arbitrary text
InitFeed == FeedInit /\ LogIdle /\ SelIdle /\ SchedIdle /\ DeckIdle
SpecFeed == InitFeed /\ [][FeedNext]_vars

\* a client that builds a tree
InitTree == TreeInit /\ LogIdle /\ SelIdle /\ SchedIdle /\ DeckIdle
SpecTree == InitTree /\ [][TreeNext]_vars

\* the log round trip
InitLog == CfgIdle /\ LogInit /\ SelIdle /\ SchedIdle /\ DeckIdle
SpecLog == InitLog /\ [][LogNext]_vars

\* a log parser fed arbitrary text
InitLogFeed == CfgIdle /\ LogFeedInit /\ SelIdle /\ SchedIdle /\ DeckIdle
SpecLogFeed == InitLogFeed /\ [][LogFeedNext]_vars

\* a selector fed a stream
InitSelector == CfgIdle /\ LogIdle /\ SelInit /\ SchedIdle /\ DeckIdle
SpecSelector == InitSelector /\ [][SelNext]_vars

\* a scheduling session: pass 1, pass 2, deck constructions
InitSched == CfgIdle /\ LogIdle /\ SelIdle /\ SchedInit /\ DeckIdle
SpecSched == InitSched /\ [][SchedNext]_vars

\* a deck in the hands of a client
InitDeck == CfgIdle /\ LogIdle /\ SelIdle /\ SchedIdle /\ DeckInit
SpecDeck == InitDeck /\ [][DeckNext]_vars

\* a client that keeps drawing and keeps marking what it drew, as the
\* docstring of TCardDeck describes
SpecDeckLive == SpecDeck /\ WF_vars(DeckGetCard) /\ WF_vars(DeckMarkSucceeded)

----------------------------------------------------------------------------
(* Properties                                                              *)

CfgEnded   == cfgPc \in {"done", "raised"}
LogEnded   == logPc \notin {"idle", "write", "parse"}
Cards      == 1..Len(source)
Weight(card) == Now - stubs[source[card]].due
NewIn(cards) == { c \in cards : stubs[source[c]].due = NeverTouched }
StubsIn(b)   == { h \in DOMAIN stubs : stubs[h].bucket = b }
InSession    == schedPc \notin {"idle", "cards"}
Returned(op) == deckLast.op = op /\ deckLast.raised = "none"
InHand       == deck.currentCard # 0 /\ ~deck.currentCardMarked
Pool(list)   == { list[i] : i \in 1..Len(list) }
DistinctTags == \A i, j \in 1..selOffered : i # j => selStream[i] # selStream[j]

\* C1: writing any section tree, pretty or compact, and parsing the text
\* with the DOM parser (ParseString, then Finish) succeeds and gives back a
\* root with the same name and the same children in the same order.
C1_ConfigRoundTrip ==
  CfgEnded => /\ cfgPc = "done"
              /\ parser.root # 0
              /\ ToValue(secs, parser.root) = tree

C1_Witness ==
  /\ cfgPc = "done"
  /\ ~pretty
  /\ Len(tree.children) = 2
  /\ tree.children[1] = SettingNode(<<Quote>>)
  /\ tree.children[2].isSec
  /\ tree.children[2].children # <<>>

\* C2: writing any record of one or more fields with TLogWriter.Write and
\* parsing the line with TLogParser delivers exactly one record, equal to
\* the record written.
C2_LogRoundTrip ==
  LogEnded => /\ logPc = "done"
              /\ delivered = <<record>>

\* C3: a record replayed for a registered stub in bucket b of B buckets
\* puts it in bucket min(b + 1, B - 1) when the retry count is 0 and in
\* bucket 0 otherwise, and sets its due date to the record's timestamp plus
\* the delay of the bucket it lands in.
C3_BucketMath ==
  (schedPc = "replay" /\ last.count > 0 /\ last.known /\ last.rec.len = 3
     /\ last.rec.tsOk /\ last.rec.retriesOk)
  => LET stub == stubs[last.rec.hash]
         b    == last.before.bucket
     IN  /\ stub.bucket = IF last.rec.retries = 0 THEN Min(b + 1, Len(buckets) - 1) ELSE 0
         /\ stub.due = PlusDelay(last.rec.ts, buckets[stub.bucket + 1].delay)

C3_Witness ==
  /\ schedPc = "replay"
  /\ last.count = 2
  /\ last.known
  /\ last.rec.retries = 0
  /\ Len(buckets) = 2
  /\ last.before.bucket = 1
  /\ last.before.due # last.rec.ts + buckets[2].delay
  /\ stubs[last.rec.hash].bucket = 1

\* C4: after pass 1 and after every replayed record the new-card counter
\* is at most the sum of the buckets' due counts, and no assertion of the
\* session fails.
C4_NewAtMostDue ==
  InSession => /\ numNew <= SumDue(buckets)
               /\ schedPc # "AssertionError"

C4_Witness ==
  /\ schedPc = "replay"
  /\ last.count = 2
  /\ last.known
  /\ numNew = 1
  /\ SumDue(buckets) = 1

\* C5: after pass 1 and any replayed records every bucket has
\* 0 <= DueCardCount <= CardCount, its DueCardCount is the number of stubs
\* assigned to it that are due now, and the assertions of RemoveStub hold.
C5_DueCounts ==
  /\ schedPc # "AssertionError"
  /\ InSession =>
       \A i \in 1..Len(buckets) :
         /\ 0 <= buckets[i].numDue
         /\ buckets[i].numDue <= buckets[i].numCards
         /\ buckets[i].numDue =
              Cardinality({ h \in StubsIn(i - 1) : stubs[h].due <= Now })

\* C6: after pass 1 and after every replayed record the buckets' card
\* counts add up to the number of registered content hashes, also when the
\* card source offers a hash more than once.
C6_CardCountIsDistinct ==
  schedPc \in {"cards", "replay", "ready"} =>
    SumCards(buckets) = Cardinality(DOMAIN stubs)

\* C7 as claimed: the deck ConstructDeck(size, newQuota) returns holds at
\* most size cards.
C7_DeckAtMostSize ==
  build.phase = "done" => Cardinality(Deck) <= build.reqSize

\* what does hold of the deck's size while the new-card counter is not
\* negative: at most max(size, min(newQuota, number of new cards)) cards
C7_DeckBound ==
  (build.phase = "done" /\ factory.numNew >= 0) =>
    Cardinality(Deck) <= Max(build.reqSize, Min(build.reqQuota, factory.numNew))

C7_Witness ==
  /\ build.phase = "done"
  /\ ~build.noneDue
  /\ build.reqQuota <= build.reqSize
  /\ factory.numDue > build.reqSize
  /\ Cardinality(Deck) = build.reqSize

\* C8: when some card is due, the deck holds exactly min(newQuota, number
\* of new cards) new cards, none when newQuota is 0.
C8_NewCardQuota ==
  (build.phase = "done" /\ ~build.noneDue) =>
    Cardinality(NewIn(Deck)) = Min(build.reqQuota, factory.numNew)

C10_SelectorSize ==
  /\ selPc \in {"idle", "run"}
  /\ Cardinality(sel.sample) <= sel.capacity
  /\ Cardinality(sel.sample) = Min(sel.capacity, selOffered)

\* C11: Add returns True exactly when the sample is not full or the offer's
\* tag is at least the least tag of the sample; an accepted offer to a full
\* sample takes the place of one entry with the least tag, a rejected offer
\* leaves the sample as it was; and after a stream of pairwise distinct tags
\* the sample is the min(k, N) offered items with the largest tags.
C11_KeepsLargestKeys ==
  /\ selOffered > 0 =>
       LET tag    == selStream[selOffered]
           before == selLast.before
           offer  == [tag |-> tag, o |-> selOffered]
           full   == Cardinality(before) >= sel.capacity
       IN  /\ selLast.added <=>
                (~full \/ \E e \in before : \A f \in before : e.tag <= f.tag /\ tag >= e.tag)
           /\ selLast.added /\ ~full => sel.sample = before \cup {offer}
           /\ selLast.added /\ full =>
                \E e \in before :
                  /\ \A f \in before : e.tag <= f.tag
                  /\ sel.sample = (before \ {e}) \cup {offer}
           /\ ~selLast.added => sel.sample = before
  /\ DistinctTags =>
       /\ Cardinality(sel.sample) = Min(sel.capacity, selOffered)
       /\ \A i \in 1..selOffered :
            i \in Sampled(sel) <=>
              Cardinality({ j \in 1..selOffered : selStream[j] > selStream[i] }) < sel.capacity

C11_Witness ==
  /\ DistinctTags
  /\ selOffered = 3
  /\ sel.capacity = 2
  /\ selLast.added
  /\ Cardinality(selLast.before) = 2
  /\ Sampled(sel) = {1, 3}

\* C12: after a selector of capacity k has consumed N > k items, each item is
\* in the sample with probability k/N whatever its position: of the equally
\* likely orders of the N tags, the share that leaves item i in the sample is
\* k/N for every i.
C12_UniformInclusion ==
  selPc = "run" /\ selOffered > sel.capacity =>
    /\ DistinctTags => sel = ConsumeTags(NewSelector(sel.capacity), selStream, 1)
    /\ \A i \in 1..selOffered :
         Cardinality({ t \in TagOrders(selOffered) :
                        i \in Sampled(ConsumeTags(NewSelector(sel.capacity), t, 1)) })
           * selOffered
         = sel.capacity * Cardinality(TagOrders(selOffered))

C12_Witness ==
  /\ selPc = "run"
  /\ sel.capacity = 2
  /\ selOffered = 3
  /\ DistinctTags
  /\ 1 \notin Sampled(sel)

\* The step part of C13: a MarkFailed that returns raises the retry count of
\* the card in hand by one, leaves the other counts and NumCardsLeft alone and
\* puts the card in the failed pool; NumCardsLeft changes only in a
\* MarkSucceeded that returns, and then by minus one.
C13_Step ==
  /\ Returned("MarkFailed") =>
       LET c == deckLast.before.currentCard IN
       /\ deck.statistics.retryMap =
            [deckLast.before.statistics.retryMap EXCEPT ![c] = @ + 1]
       /\ deck.statistics.numLeft = deckLast.before.statistics.numLeft
       /\ deck.failedCards = Append(deckLast.before.failedCards, c)
  /\ (deckLast.op # "none" /\
        deck.statistics.numLeft # deckLast.before.statistics.numLeft) =>
       /\ Returned("MarkSucceeded")
       /\ deck.statistics.numLeft = deckLast.before.statistics.numLeft - 1

\* C13: each MarkFailed on a card raises its retry count by exactly one and
\* leaves NumCardsLeft unchanged, NumCardsLeft goes down, by one, only when a
\* card is marked succeeded, and a card in the failed pool is returned by a
\* later GetCard.
C13_FailedCardComesBack ==
  /\ []C13_Step
  /\ \A c \in DeckCards :
       (c \in Pool(deck.failedCards)) ~>
         (Returned("GetCard") /\ deckLast.result = c /\ deck.currentCard = c /\ InHand)

C13_Witness ==
  /\ Returned("GetCard")
  /\ deckLast.before.cards = <<>>
  /\ deck.statistics.retryMap[deckLast.result] = 2
  /\ deck.statistics.numLeft = deck.statistics.numCards

\* C14: GetCard raises TEmptyDeckError exactly when nothing is pending, the
\* failed pool is empty and the last drawn card, if any, is marked; the call
\* then leaves the deck and its statistics as they were; nothing else raises
\* TEmptyDeckError.
C14_EmptyDeck ==
  /\ deckLast.raised = "TEmptyDeckError" => deckLast.op = "GetCard" /\ deck = deckLast.before
  /\ deckLast.op = "GetCard" =>
       (deckLast.raised = "TEmptyDeckError" <=>
          /\ deckLast.before.cards = <<>>
          /\ deckLast.before.failedCards = <<>>
          /\ deckLast.before.currentCard = 0 \/ deckLast.before.currentCardMarked)

C14_Witness ==
  /\ deckLast.raised = "TEmptyDeckError"
  /\ deck.currentCard # 0
  /\ deck.statistics.numCards = 2
  /\ deck.statistics.numFailedOnFirstTry = 1

\* C15: GetCard while the drawn card is unmarked, and MarkSucceeded or
\* MarkFailed with no card drawn or with the drawn card already marked, fail
\* and leave the pending sequence, the failed pool and the statistics alone.
C15_Alternate ==
  LET b == deckLast.before
      unmarked == b.currentCard # 0 /\ ~b.currentCardMarked
  IN  /\ deckLast.op = "GetCard" /\ unmarked =>
           deckLast.raised = "AssertionError" /\ deck = b
      /\ deckLast.op \in {"MarkFailed", "MarkSucceeded"} /\ ~unmarked =>
           deckLast.raised = "AssertionError" /\ deck = b

C15_Witness ==
  /\ deckLast.op = "MarkFailed"
  /\ deckLast.raised = "AssertionError"
  /\ deckLast.before.currentCardMarked
  /\ deckLast.before.failedCards # <<>>

\* C16 as claimed: HasCards is False exactly when nothing is pending, the
\* failed pool is empty and no card is drawn and unmarked.
C16_Exhausted ==
  ~HasCards(deck) <=> (deck.cards = <<>> /\ deck.failedCards = <<>> /\ ~InHand)

\* C16 as amended: HasCards is False exactly when nothing is pending and the
\* failed pool is empty, a card drawn and unmarked or not: exactly when the
\* cards left (NumCardsLeft) are none but, possibly, the card in hand.
C16_HasCardsIsPools ==
  /\ ~HasCards(deck) <=> Len(deck.cards) + Len(deck.failedCards) = 0
  /\ ~HasCards(deck) <=> deck.statistics.numLeft = (IF InHand THEN 1 ELSE 0)

C16_Witness ==
  /\ ~HasCards(deck)
  /\ InHand
  /\ deck.statistics.numAttempts > 0

\* C17: a GetCard that finds cards pending pops the last of them and leaves
\* the failed pool alone, so no failed card is drawn while a card is pending;
\* one that finds nothing pending makes the failed pool, its cards in some
\* order, the pending sequence, empties the failed pool and then pops.
C17_Recycle ==
  Returned("GetCard") =>
    LET b == deckLast.before IN
    IF b.cards # <<>>
    THEN /\ deckLast.result = Last(b.cards)
         /\ deck.cards = Front(b.cards)
         /\ deck.failedCards = b.failedCards
    ELSE /\ Append(deck.cards, deckLast.result) \in Shuffles(b.failedCards)
         /\ deck.failedCards = <<>>

C17_Witness ==
  /\ Returned("GetCard")
  /\ deckLast.before.cards = <<>>
  /\ Len(deckLast.before.failedCards) = 2
  /\ deckLast.result = deckLast.before.failedCards[1]

\* C18: ConstructDeck(size, newQuota) raises RuntimeError exactly when
\* size <= 0 or newQuota < 0, and then before any card is offered; with
\* size >= 1 and newQuota >= 0 the call goes on with newQuota clamped to the
\* number of new cards.
C18_ParameterCheck ==
  build.phase # "idle" =>
    /\ build.phase = "RuntimeError" <=> (build.reqSize <= 0 \/ build.reqQuota < 0)
    /\ build.phase = "RuntimeError" =>
         /\ build.index = 0
         /\ build.newSel.sample = {} /\ build.dueSel.sample = {}
         /\ build.selection = {} /\ build.combined.sample = {}
    /\ build.phase # "RuntimeError" =>
         \* "IndexError" comes later, out of a sampler's Add, not out of the check
         /\ build.phase \in {"offer", "done", "IndexError"}
         /\ build.numNewCards = Min(build.reqQuota, factory.numNew)

C18_Witness ==
  /\ build.phase = "done"
  /\ build.reqQuota > factory.numNew
  /\ factory.numNew > 0
  /\ build.numNewCards = factory.numNew

\* C19: replaying a record whose hash is not registered changes no stub, no
\* bucket counter and not the new-card counter.
C19_UnknownHashIgnored ==
  [][(schedPc = "replay" /\ last'.count = last.count + 1 /\ ~last'.known)
       => (stubs' = stubs /\ buckets' = buckets /\ numNew' = numNew)]_vars

C19_Witness ==
  /\ schedPc = "replay"
  /\ last.count > 0
  /\ ~last.known
  /\ last.rec.hash = UnknownHash
  /\ Cardinality(DOMAIN stubs) = 2

\* C20: a replayed record with a field count other than three, with a
\* timestamp that is no number or with a retry count that is no integer
\* raises TInvalidFlashcardStatsRecord.
C20_MalformedRaises ==
  (last.count > 0 /\ (last.rec.len # 3 \/ ~last.rec.tsOk \/ ~last.rec.retriesOk))
    => schedPc = "TInvalidFlashcardStatsRecord"

\* C21 as claimed: when the history log cannot be opened, missing or
\* unreadable, construction completes without error and every registered card
\* is new, in bucket 0 and due.
C21_LogNotOpened ==
  factory.log \in {"ENOENT", "EACCES"} =>
    /\ schedPc \in {"missing", "ready"}
    /\ \A h \in DOMAIN stubs : stubs[h] = NewStub

\* C21 as amended: when the history log is missing, construction completes
\* without error and every registered card is new, in bucket 0 and due, the
\* new-card count being the number of registered cards; an open that fails
\* for another reason raises its IOError out of the constructor.
C21_MissingLogOnly ==
  /\ factory.log = "ENOENT" =>
       /\ schedPc \in {"missing", "ready"}
       /\ \A h \in DOMAIN stubs : stubs[h] = NewStub /\ IsDue(stubs[h], Now)
       /\ numNew = Cardinality(DOMAIN stubs)
       /\ \A i \in 2..Len(buckets) : buckets[i].numCards = 0 /\ buckets[i].numDue = 0
  /\ factory.log = "EACCES" => schedPc = "IOError"

C21_Witness ==
  /\ factory.log = "ENOENT"
  /\ schedPc = "ready"
  /\ Cardinality(DOMAIN stubs) = 2
  /\ factory.numNew = 2
  /\ Len(buckets) = 2

\* C22: no step of ConstructDeck, in either branch or when it raises the
\* parameter error, changes a stub, a bucket counter or the factory's total,
\* new and due card counts.
C22_BuildLeavesRegistry ==
  [][build' # build =>
       /\ stubs' = stubs
       /\ buckets' = buckets
       /\ numNew' = numNew
       /\ factory' = factory]_vars

C22_Witness ==
  /\ build.phase = "done"
  /\ build.reqQuota = 1
  /\ factory.numNew = 2
  /\ NewIn(Deck) # {}

----------------------------------------------------------------------------
(* The parser fed arbitrary text                                           *)

Feeding == cfgPc = "feed"
FormatErrorRaised == cfgPc = "raised" /\ parser.err.kind = "TConfigurationFormatError"
EventsOfType(type) == { i \in DOMAIN events : events[i].type = type }

\* the state a comment returns to, seen from the text without the comment
Resumed(state) == IF state = "NAME_ESCAPE" THEN "POST_NAME" ELSE state

\* C23: a line comment between two tokens changes neither the events the
\* parser emits nor whether Finish succeeds: the parser fed the text and
\* the shadow fed the text without such comments have emitted the same
\* events, hold the same open sections and the same tree, fail together,
\* and Finish succeeds on both or on neither; inside the comment the saved
\* state stays the state the comment character was read in.
C23_CommentIsInvisible ==
  (cfgPc \in {"feed", "raised"} /\ shadow.valid) =>
    /\ events = shadow.m.events
    /\ secs = shadow.m.secs
    /\ parser.stack = shadow.m.parser.stack
    /\ parser.name = shadow.m.parser.name
    /\ shadow.skipping =>
         /\ parser.state = "LINE_COMMENT"
         /\ parser.prior = Resumed(shadow.m.parser.state)
    /\ ~shadow.skipping =>
         /\ Resumed(parser.state) = Resumed(shadow.m.parser.state)
         /\ Failed(Machine) <=> Failed(shadow.m)
         /\ Feeding => (Failed(ConfigFinish(Machine)) <=> Failed(ConfigFinish(shadow.m)))

C23_Witness ==
  /\ cfgPc = "finished"
  /\ shadow.valid
  /\ parser.prior = "PRE_NAME"
  /\ parser.line = 2
  /\ parser.pos > 7
  /\ Len(events) = 2

\* C24: Finish raises the 'Incomplete document' format error exactly when
\* the state is not PRE_NAME or a section is open, and otherwise returns
\* with the parser, the tree and the events as they were; it succeeds only
\* after a top-level section was opened and every opened section closed.
C24_Finish ==
  [][(Feeding /\ cfgPc' \in {"finished", "unfinished"}) =>
       LET incomplete == parser.state # "PRE_NAME" \/ parser.stack # <<>> IN
       /\ events' = events
       /\ secs' = secs
       /\ [parser' EXCEPT !.err = NoError] = parser
       /\ incomplete =>
            /\ cfgPc' = "unfinished"
            /\ parser'.err.kind = "TConfigurationFormatError"
            /\ parser'.err.message = "Incomplete document"
       /\ ~incomplete =>
            /\ cfgPc' = "finished"
            /\ parser' = parser
            /\ \E i \in EventsOfType("SectionBegin") : events[i].parent = 0
            /\ Cardinality(EventsOfType("SectionBegin")) = Cardinality(EventsOfType("SectionEnd"))
       /\ (events = <<>> \/ parser.state \in {"NAME", "NAME_ESCAPE", "LINE_COMMENT"}) =>
            cfgPc' = "unfinished"]_vars

C24_Witness ==
  /\ cfgPc = "finished"
  /\ Cardinality(EventsOfType("SectionBegin")) = 2
  /\ Cardinality(EventsOfType("Setting")) = 1

Rejected(r) ==
  /\ r.parser.err.kind = "TConfigurationFormatError"
  /\ r.events = events
  /\ r.parser.stack = <<>>

\* C25: while no section is open, a ';' after a name, a '}' after a name or
\* between tokens, and a '{' without a name before it each raise the format
\* error, emit nothing and leave the stack empty; between tokens the parser
\* takes only whitespace, the quote that opens a name and a comment character.
C25_TopLevelErrors ==
  (Feeding /\ parser.stack = <<>>) =>
    \A char \in Alphabet \cup {Space, "@", "a"} :
      LET r == ParseChar(Machine, char) IN
      /\ (char = ";" /\ parser.state \in {"NAME_ESCAPE", "POST_NAME"}) => Rejected(r)
      /\ (char = "}" /\ parser.state \in BetweenTokens) => Rejected(r)
      /\ (char = "{" /\ parser.state \in {"START", "PRE_NAME"}) => Rejected(r)
      /\ parser.state \in {"START", "PRE_NAME"} =>
           /\ Failed(r) => Rejected(r)
           /\ ~Failed(r) <=> (IsSpace(char) \/ char = Quote \/ char \in CommentChars)

C25_Witness ==
  /\ FormatErrorRaised
  /\ parser.err.message = "Closing a nonexistent section at the top level"
  /\ parser.stack = <<>>
  /\ Len(events) = 3

SettingEvent(text, section) == [type |-> "Setting", section |-> section, parent |-> 0, text |-> text]
SectionEndEvent(section) == [type |-> "SectionEnd", section |-> section, parent |-> 0, text |-> <<>>]

\* C26: with a section open, a '}' after a closed name emits Setting(name,
\* innermost section) and then SectionEnd of that section and pops it; a '}'
\* with no name pending emits only that SectionEnd and pops it.
C26_CloseSection ==
  (Feeding /\ parser.stack # <<>>) =>
    LET r == ParseChar(Machine, "}")
        innermost == Last(parser.stack)
    IN  /\ parser.state \in {"NAME_ESCAPE", "POST_NAME"} =>
             /\ r.events = events \o <<SettingEvent(parser.name, innermost),
                                       SectionEndEvent(innermost)>>
             /\ r.parser.stack = Front(parser.stack)
        /\ parser.state = "PRE_NAME" =>
             /\ r.events = Append(events, SectionEndEvent(innermost))
             /\ r.parser.stack = Front(parser.stack)

\* six characters that gave SectionBegin, Setting, SectionEnd: the name was
\* closed by the '}' itself
C26_Witness ==
  /\ Feeding
  /\ parser.pos = 7
  /\ Len(events) = 3
  /\ events[2].type = "Setting"
  /\ events[3] = SectionEndEvent(events[2].section)
  /\ parser.stack = <<>>

\* line and column of the character after the consumed ones
LineAfter(text) == 1 + Cardinality({ i \in DOMAIN text : text[i] })
ColumnAfter(text) ==
  LET newlines == { i \in DOMAIN text : text[i] } IN
  Len(text) + 1 - (IF newlines = {} THEN 0 ELSE CHOOSE i \in newlines : \A j \in newlines : j <= i)

\* C27: Line and Column are the line and column of the next character and
\* AbsolutePosition is one more than the number of characters consumed,
\* however the text was split over ParseString calls; a format error raised
\* by a character carries the line and column of that character.
C27_Positions ==
  cfgPc \in {"feed", "raised"} =>
    /\ parser.pos = Len(consumed) + 1
    /\ parser.line = LineAfter(consumed)
    /\ parser.column = ColumnAfter(consumed)
    /\ FormatErrorRaised =>
         /\ parser.err.line = LineAfter(consumed)
         /\ parser.err.column = ColumnAfter(consumed)

C27_Witness ==
  /\ FormatErrorRaised
  /\ parser.err.line = 2
  /\ parser.err.column = 3
  /\ Len(consumed) = 6

\* C28: in a tree built by AddSection calls that did not raise, the
\* sections among the children of a section carry pairwise distinct names.
C28_DistinctSiblings ==
  cfgPc = "tree" =>
    \A id \in DOMAIN secs : \A i, j \in DOMAIN secs[id].children :
      (i # j /\ secs[id].children[i].isSec /\ secs[id].children[j].isSec) =>
        secs[id].children[i].text # secs[id].children[j].text

\* the part of C28 about the parser: opening a section under a parent that
\* has a section of that name raises RuntimeError("Duplicate section name")
\* from the callback and attaches nothing
C28_DuplicateRaises ==
  (cfgPc = "raised" /\ events # <<>>) =>
    LET e == Last(events) IN
    (e.type = "SectionBegin" /\ e.parent # 0 /\
       \E k \in DOMAIN secs[e.parent].children :
          /\ secs[e.parent].children[k].isSec
          /\ secs[e.parent].children[k].text = e.text
          /\ secs[e.parent].children[k].ref # e.section)
    <=> (parser.err.kind = "RuntimeError" /\ parser.err.message = "Duplicate section name" /\
         \A id \in DOMAIN secs : \A k \in DOMAIN secs[id].children :
            secs[id].children[k].ref # e.section)

\* the open sections after the events evs, innermost last
RECURSIVE OpenAfter(_)
OpenAfter(evs) ==
  IF evs = <<>> THEN <<>>
  ELSE LET before == OpenAfter(Front(evs))
           e == Last(evs)
       IN  IF e.type = "SectionBegin" THEN Append(before, e.section)
           ELSE IF e.type = "SectionEnd" THEN Front(before)
           ELSE before

\* the children the events evs gave the section id, in the order of the events
RECURSIVE ChildrenFrom(_, _)
ChildrenFrom(evs, id) ==
  IF evs = <<>> THEN <<>>
  ELSE LET before == ChildrenFrom(Front(evs), id)
           e == Last(evs)
       IN  IF e.type = "SectionBegin" /\ e.parent = id
           THEN Append(before, [isSec |-> TRUE, text |-> e.text, ref |-> e.section])
           ELSE IF e.type = "Setting" /\ e.section = id
           THEN Append(before, [isSec |-> FALSE, text |-> e.text, ref |-> 0])
           ELSE before

\* C29: as long as no callback raised, the first SectionBegin is Root and is
\* the child of no section; every later SectionBegin names as parent the
\* section that was innermost open, every Setting the innermost open section;
\* and the children of every section are these sections and settings in the
\* order of their events.
C29_TreeFollowsEvents ==
  parser.err.kind \in {"none", "TConfigurationFormatError"} =>
    /\ \A i \in DOMAIN events :
         LET open == OpenAfter(SubSeq(events, 1, i - 1)) IN
         /\ (events[i].type = "SectionBegin" /\ EventsOfType("SectionBegin") \cap 1..(i - 1) = {}) =>
              /\ parser.root = events[i].section
              /\ events[i].parent = 0
              /\ \A id \in DOMAIN secs : \A k \in DOMAIN secs[id].children :
                   secs[id].children[k].ref # events[i].section
         /\ (events[i].type = "SectionBegin" /\ EventsOfType("SectionBegin") \cap 1..(i - 1) # {}) =>
              open # <<>> /\ events[i].parent = Last(open)
         /\ events[i].type = "Setting" => open # <<>> /\ events[i].section = Last(open)
    /\ \A id \in DOMAIN secs : secs[id].children = ChildrenFrom(events, id)

C29_Witness ==
  /\ Feeding
  /\ parser.root = 1
  /\ Len(secs) = 2
  /\ Len(secs[1].children) = 2
  /\ secs[1].children[1].isSec
  /\ ~secs[1].children[2].isSec

----------------------------------------------------------------------------
(* The log parser fed arbitrary text                                       *)

LineRead == Scan(Front(fed.line))
LineFed == logPc = "feed" /\ Terminated(fed.line)
Colons(pieces) == Len(pieces) - 1
Quoted(pieces) == \E i \in DOMAIN pieces : pieces[i]
RecordsOfLine == Len(delivered) - fed.before

\* C30: a newline-terminated line that holds a quoted field or a ':'
\* outside quotes delivers exactly one record, of as many fields as the line
\* has ':' outside quoted fields plus one; here every ':' and every quote
\* outside a quoted field counts, those after a comment character too.
C30_OneRecordPerLine ==
  LineFed =>
    LET colons == Colons(LineRead.pieces) + LineRead.colons IN
    IF Quoted(LineRead.pieces) \/ LineRead.quotes > 0 \/ colons > 0
    THEN RecordsOfLine = 1 /\ Len(Last(delivered)) = colons + 1
    ELSE RecordsOfLine = 0

\* C30, with the text of a comment left out of the count: such a line
\* delivers exactly one record when it holds a quoted field or a ':' before
\* any comment, with one field per stretch between these ':', empty where
\* the stretch holds no quoted field (so also after a trailing ':'); a line
\* of whitespace, or of whitespace and a comment, delivers no record.
C30_OneRecordPerLineBeforeComment ==
  LineFed =>
    LET pieces == LineRead.pieces IN
    IF Quoted(pieces) \/ Colons(pieces) > 0
    THEN /\ RecordsOfLine = 1
         /\ Len(Last(delivered)) = Colons(pieces) + 1
         /\ \A i \in DOMAIN pieces : ~pieces[i] => Last(delivered)[i] = <<>>
    ELSE RecordsOfLine = 0

C30_Witness ==
  /\ LineFed
  /\ fed.line = <<":", Quote, "#", Quote, ":", Newline>>
  /\ delivered = << <<<<>>, <<"#">>, <<>>>> >>

\* the line in progress, as read so far
LineSoFar == IF Terminated(fed.line) THEN <<>> ELSE fed.line
RecordsSoFar == IF Terminated(fed.line) THEN 0 ELSE RecordsOfLine

\* C31: a comment character read outside a quoted field delivers the record
\* in progress at once, with one field per stretch between the ':' read so
\* far (empty where no quoted field stood, so also after a ':' read last),
\* and delivers nothing when the line held neither; from then on every
\* character up to and including the newline is taken without error and
\* without a further record.
C31_CommentEndsRecord ==
  logPc = "feed" =>
    LET read == Scan(LineSoFar) IN
    /\ (~read.inQuote /\ ~read.inComment) =>
         \A char \in CommentChars :
           LET r == LogParseChar(LogMachine, char) IN
           /\ ~LogFailed(r)
           /\ r.p.state = "LINE_COMMENT"
           /\ RecordsSoFar = 0
           /\ IF Quoted(read.pieces) \/ Colons(read.pieces) > 0
              THEN /\ Front(r.out) = delivered
                   /\ Len(Last(r.out)) = Len(read.pieces)
                   /\ \A i \in DOMAIN read.pieces : ~read.pieces[i] => Last(r.out)[i] = <<>>
              ELSE r.out = delivered
    /\ read.inComment =>
         \A char \in LogAlphabet \cup {"@", "a"} :
           LET r == LogParseChar(LogMachine, char) IN
           /\ ~LogFailed(r)
           /\ r.out = delivered
           /\ r.p.fields = <<>>
           /\ r.p.state = IF char = Newline THEN "PRE_FIELD" ELSE "LINE_COMMENT"

C31_Witness ==
  /\ LineFed
  /\ fed.line = <<":", "#", ":", Quote, Newline>>
  /\ delivered = << << <<>>, <<>> >> >>

\* the text ends inside a quoted field or right after its closing quote
MidField ==
  LET read == Scan(LineSoFar) IN
  \/ read.inQuote
  \/ ~read.inComment /\ LineSoFar # <<>> /\ Last(LineSoFar) = Quote

\* C32: Finish succeeds when the text ends between fields or inside a
\* comment; it then delivers the record of the unterminated line, if fields
\* or a ':' were read on it and no comment has delivered it already, and a
\* second Finish delivers nothing more.  When the text ends inside a field
\* or right after its closing quote, Finish raises TLogFormatError with
\* EntryNumber one more than the number of records delivered, and delivers
\* nothing.
C32_LogFinish ==
  [][(logPc = "feed" /\ logPc' \in {"finished", "unfinished"}) =>
       LET read == Scan(LineSoFar) IN
       /\ MidField =>
            /\ logPc' = "unfinished"
            /\ delivered' = delivered
            /\ logp'.err.kind = "TLogFormatError"
            /\ logp'.err.entry = Len(delivered) + 1
       /\ ~MidField =>
            /\ logPc' = "finished"
            /\ logp'.err.kind = "none"
            /\ IF ~read.inComment /\ (Quoted(read.pieces) \/ Colons(read.pieces) > 0)
               THEN /\ RecordsSoFar = 0
                    /\ Front(delivered') = delivered
                    /\ Len(Last(delivered')) = Len(read.pieces)
                    /\ \A i \in DOMAIN read.pieces :
                         ~read.pieces[i] => Last(delivered')[i] = <<>>
               ELSE delivered' = delivered
            /\ LET again == LogFinish([p |-> logp', out |-> delivered']) IN
               ~LogFailed(again) /\ again.out = delivered']_vars

C32_Witness ==
  /\ logPc = "finished"
  /\ fed.line = <<Quote, ":", Quote, Space, ":">>
  /\ delivered = << << <<":">>, <<>> >> >>

----------------------------------------------------------------------------
(* The line TLogWriter.Write writes                                        *)

RECURSIVE Doubled(_)
\* text with every quote doubled
Doubled(text) ==
  IF text = <<>> THEN <<>>
  ELSE (IF Head(text) = Quote THEN <<Quote, Quote>> ELSE <<Head(text)>>) \o Doubled(Tail(text))

RECURSIVE FieldsLine(_)
\* the fields of a line: quoted when not empty, ':' after all but the last
FieldsLine(fields) ==
  IF fields = <<>> THEN <<>>
  ELSE (IF Head(fields) # <<>> THEN <<Quote>> \o Doubled(Head(fields)) \o <<Quote>> ELSE <<>>)
       \o (IF Len(fields) > 1 THEN <<":">> ELSE <<>>)
       \o FieldsLine(Tail(fields))

\* C33: for a record of one or more fields Write returns, having written
\* one line: every non-empty field quoted with its quotes doubled, a ':'
\* after every field but the last, nothing for an empty field, and one
\* newline at the end.
C33_WrittenLine ==
  /\ logPc # "UnboundLocalError"
  /\ (logPc = "parse" /\ logp.pos = 1) => logText = FieldsLine(record) \o <<Newline>>

----------------------------------------------------------------------------
(* The sections of a TSection                                              *)

RECURSIVE SectionsAdded(_)
\* the sections among the children, in the order they were added, each once
SectionsAdded(children) ==
  IF children = <<>> THEN <<>>
  ELSE LET before == SectionsAdded(Front(children))
           child == Last(children)
       IN  IF child.isSec /\ \A i \in DOMAIN before : before[i] # child.ref
           THEN Append(before, child.ref) ELSE before

\* C34: YieldSections yields the subsections in the order in which
\* AddSection added them, YieldSectionsReversed in the opposite order.
C34_YieldOrder ==
  cfgPc = "tree" =>
    \A id \in DOMAIN secs :
      /\ YieldSections(secs, id) = SectionsAdded(secs[id].children)
      /\ YieldSectionsReversed(secs, id) = Reverse(SectionsAdded(secs[id].children))

----------------------------------------------------------------------------
(* The new-card counter of the replay pass                                 *)

\* C35: while well-formed records are replayed, the new-card counter is the
\* number of registered stubs whose hash no replayed record carried, is the
\* number of stubs that IsNewCard still flags, and is not negative.
C35_NewCounter ==
  schedPc \in {"open", "replay", "missing", "ready"} =>
    /\ numNew = Cardinality(DOMAIN stubs \ last.seen)
    /\ numNew = Cardinality({ h \in DOMAIN stubs : IsNewCard(stubs[h]) })
    /\ numNew >= 0

----------------------------------------------------------------------------
(* A whole session with a deck                                             *)

\* the cards the deck was built from, and whether they are distinct objects
InitialCards == deckLast.hist.initial
DistinctCards ==
  \A i, j \in 1..Len(InitialCards) : i # j => InitialCards[i] # InitialCards[j]

\* nothing pending, nothing in the failed pool, and the last card marked
SessionOver ==
  /\ deck.cards = <<>>
  /\ deck.failedCards = <<>>
  /\ deck.currentCard = 0 \/ deck.currentCardMarked

\* what the claim says of the state the session ends in
AllSucceededOnce ==
  /\ \A c \in Pool(InitialCards) : deckLast.hist.passed[c] = 1
  /\ deck.statistics.numLeft = 0

\* C36: a client that keeps drawing and marking, and marks failed only
\* finitely often, brings the deck to the state with nothing pending, an
\* empty failed pool and the last card marked; in that state every card of a
\* deck of distinct cards has been marked succeeded exactly once and
\* NumCardsLeft is 0.
C36_SessionEnds ==
  /\ <>SessionOver
  /\ [](SessionOver /\ DistinctCards => AllSucceededOnce)

C36_Witness ==
  /\ SessionOver
  /\ DistinctCards
  /\ Len(InitialCards) = MaxDeckCards
  /\ \E c \in DeckCards : deckLast.hist.failed[c] = 1
  /\ AllSucceededOnce

----------------------------------------------------------------------------
(* The counters of TCardDeckStatistics                                     *)

RECURSIVE SumOver(_, _)
\* the sum of count[c] over the cards c of a set
SumOver(count, cards) ==
  IF cards = {} THEN 0
  ELSE LET c == CHOOSE x \in cards : TRUE
       IN  count[c] + SumOver(count, cards \ {c})

\* the cards the client has marked at least once, and those among them whose
\* first mark was the given one
MarkedCards == { c \in DeckCards : deckLast.hist.first[c] # "none" }
FirstMarked(how) == { c \in DeckCards : deckLast.hist.first[c] = how }

\* C37: on a deck of distinct cards NumAttempts is the number of MarkFailed
\* and MarkSucceeded calls that went through, NumPassedOnFirstTry and
\* NumFailedOnFirstTry count the cards by their first mark, and their sum is
\* the number of cards marked at least once, at most NumCards.
C37_Counters ==
  DistinctCards =>
    LET st == deck.statistics IN
    /\ st.numAttempts = SumOver(deckLast.hist.passed, DeckCards)
                          + SumOver(deckLast.hist.failed, DeckCards)
    /\ st.numPassedOnFirstTry = Cardinality(FirstMarked("passed"))
    /\ st.numFailedOnFirstTry = Cardinality(FirstMarked("failed"))
    /\ st.numPassedOnFirstTry + st.numFailedOnFirstTry = Cardinality(MarkedCards)
    /\ Cardinality(MarkedCards) <= st.numCards

C37_Witness ==
  /\ DistinctCards
  /\ Returned("MarkSucceeded")
  /\ deckLast.hist.first[deckLast.before.currentCard] = "failed"
  /\ deck.statistics.numPassedOnFirstTry = 1
  /\ deck.statistics.numFailedOnFirstTry = 1

----------------------------------------------------------------------------
(* The records of TCardDeckStatistics.Log                                  *)

\* the line of the record (timestamp, content hash, retry count) of a card
\* that was marked failed the given number of times
RecordLine(now, card, retries) ==
  FieldsLine(<<StrFloat(now), CardHash(card), StrInt(retries)>>) \o <<Newline>>

RECURSIVE LinesOf(_, _, _)
\* the record lines of the cards in the given order
LinesOf(now, order, index) ==
  IF index > Len(order) THEN <<>>
  ELSE RecordLine(now, order[index], deckLast.hist.failed[order[index]])
         \o LinesOf(now, order, index + 1)

\* C38: Log writes exactly one record (timestamp, content hash, retry count)
\* for every card marked at least once, the retry count being the number of
\* MarkFailed calls on the card, and none for a card never marked.
C38_LogRecords ==
  Returned("Log") =>
    \E order \in Orders(MarkedCards) :
      deckLast.log.text = LinesOf(deckLast.log.now, order, 1)

C38_Witness ==
  /\ Returned("Log")
  /\ DistinctCards
  /\ Len(InitialCards) = MaxDeckCards
  /\ Cardinality(MarkedCards) = 2
  /\ \E c \in MarkedCards : deckLast.hist.failed[c] = 1
  /\ \E c \in MarkedCards : deckLast.hist.failed[c] = 0
  /\ deckLast.log.text # <<>>

----------------------------------------------------------------------------
(* The nesting of the parser's events                                      *)

\* None when no section is open, else the innermost open section
Innermost(open) == IF open = <<>> THEN 0 ELSE Last(open)

\* C39: the events of the configuration parser are well nested: the stack of
\* open sections is as deep as SectionBegin events outnumber SectionEnd
\* events and holds the sections begun and not yet ended, a SectionEnd names
\* the innermost open section, the parent of a SectionBegin is the innermost
\* open section, None exactly when none is open, and a Setting carries the
\* innermost open section.
C39_WellNested ==
  /\ Len(parser.stack) = Cardinality(EventsOfType("SectionBegin"))
                           - Cardinality(EventsOfType("SectionEnd"))
  /\ Len(parser.stack) >= 0
  /\ parser.stack = OpenAfter(events)
  /\ \A i \in DOMAIN events :
       LET open == OpenAfter(SubSeq(events, 1, i - 1))
           e == events[i]
       IN  /\ e.type = "SectionEnd" => open # <<>> /\ e.section = Last(open)
           /\ e.type = "SectionBegin" =>
                /\ e.parent = Innermost(open)
                /\ e.parent = 0 <=> open = <<>>
           /\ e.type = "Setting" => open # <<>> /\ e.section = Last(open)

C39_Witness ==
  /\ Len(parser.stack) = 1
  /\ Cardinality(EventsOfType("SectionBegin")) = 2
  /\ Cardinality(EventsOfType("SectionEnd")) = 1
  /\ EventsOfType("Setting") # {}
  /\ events[Len(events)].type = "SectionEnd"

----------------------------------------------------------------------------
(* Where the cards of a deck are                                           *)

\* how often a card occurs in a list
Occurrences(list, card) == Cardinality({ i \in 1..Len(list) : list[i] = card })

\* the card is permanently out of the deck: MarkSucceeded removed it
Removed(card) == deckLast.hist.passed[card] > 0

\* in how many of the four places the card is
Places(card) ==
  Occurrences(deck.cards, card) + Occurrences(deck.failedCards, card)
    + (IF InHand /\ deck.currentCard = card THEN 1 ELSE 0)
    + (IF Removed(card) THEN 1 ELSE 0)

\* C40: in a deck built from distinct cards every card is in exactly one of
\* the pending sequence, the failed pool, the client's hand (drawn and not
\* yet marked) and the cards MarkSucceeded removed; GetCard never returns a
\* removed card; NumCardsLeft is the number of cards not yet succeeded and
\* is not negative.
C40_CardPlaces ==
  DistinctCards =>
    /\ \A c \in Pool(InitialCards) : Places(c) = 1
    /\ \A c \in DeckCards \ Pool(InitialCards) : Places(c) = 0
    /\ Returned("GetCard") => ~Removed(deckLast.result)
    /\ deck.statistics.numLeft =
         Cardinality({ c \in Pool(InitialCards) : ~Removed(c) })
    /\ deck.statistics.numLeft >= 0

C40_Witness ==
  /\ DistinctCards
  /\ Returned("GetCard")
  /\ deckLast.before.cards = <<>>
  /\ deck.cards # <<>>
  /\ \E c \in Pool(InitialCards) : Removed(c)
  /\ deck.statistics.numLeft = 2

====
